---- MODULE Spec2Model ----
(***************************************************************************)
(* csvstruct: the schema-driven Reader (SetSchema / SetPrototypeSchema     *)
(* API).  The Reader pulls rows from a csv row source, builds column and   *)
(* result descriptors from a header row, decodes data rows into reused     *)
(* component values and latches errors until Clear.                        *)
(*                                                                         *)
(* Text is modelled as a sequence of one-character strings, so that        *)
(* splitting a qualified name and parsing a number are computed, not       *)
(* assumed.  Go indices are 0-based; the model's are 1-based.              *)
(***************************************************************************)
EXTENDS Integers, Sequences, FiniteSets, TLC

VARIABLES
    r,       \* the Reader object (its fields, as a record)
    heap,    \* the []interface{} slices allocated by createDescriptors
    src,     \* the underlying csv row source
    op,      \* the last call made on the Reader
    ret,     \* what the last Read returned (or that it panicked)
    pulled,  \* the pulls the last Read made on the row source, in order
    header,  \* the header row the current descriptors were built from, and
             \* the schema they were resolved against
    tables,  \* how many header rows have built descriptors so far
    held     \* a returned slice the caller has kept, with what it saw in it

vars == <<r, heap, src, op, ret, pulled, header, tables, held>>

-----------------------------------------------------------------------------
(* Bounds of the model. *)

\* Number of cells of every row the source yields.
NCols == 3

\* The count of tables stops at this many.
MaxTables == 2

-----------------------------------------------------------------------------
(* Errors.  Every error is a record of the same shape. *)

Err(kind, arg) == [kind |-> kind, arg |-> arg]

NoErr == Err("nil", <<>>)

\* io.EOF, the end-of-stream signal of the row source.
EOF == Err("EOF", <<>>)

\* A csv.ParseError of the row source (bare quote, wrong field count).
CsvErr == Err("csv.ParseError", <<>>)

\* fmt.Errorf("failed to read CSV header: %v", err)
HeaderEOFErr == Err("failed to read CSV header", <<>>)

-----------------------------------------------------------------------------
(* Component types (reflect.Type) of the callers' programs. *)

Character == "Character"
Attributes == "Attributes"
Monster == "Monster"
Narrow == "Narrow"
Odd == "Odd"
\* A type of another package that is named as Character is.
Rival == "rival.Character"

Types == {Character, Attributes, Monster, Narrow, Odd, Rival}

\* reflect.Type.Name(), as text.
TypeName(typ) ==
    CASE typ = Character -> <<"C">>
      [] typ = Attributes -> <<"A">>
      [] typ = Monster -> <<"M">>
      [] typ = Narrow -> <<"N">>
      [] typ = Odd -> <<"O">>
      [] typ = Rival -> <<"C">>

\* The struct fields of a type, in declaration order.
Fields(typ) ==
    CASE typ = Character -> << [name |-> <<"n">>, kind |-> "string"] >>
      [] typ = Attributes -> << [name |-> <<"h">>, kind |-> "int"],
                                [name |-> <<"d">>, kind |-> "bool"] >>
      [] typ = Monster -> << >>
      [] typ = Narrow -> << [name |-> <<"b">>, kind |-> "int8"] >>
      [] typ = Odd -> << [name |-> <<"z">>, kind |-> "complex128"] >>
      [] typ = Rival -> << [name |-> <<"n">>, kind |-> "int"],
                           [name |-> <<"k">>, kind |-> "bool"] >>

FieldNames(typ) == {Fields(typ)[i].name : i \in DOMAIN Fields(typ)}

\* reflect.Type.FieldByName
FieldByName(typ, fieldName) ==
    IF fieldName \in FieldNames(typ)
    THEN [ok |-> TRUE,
          kind |-> (CHOOSE f \in {Fields(typ)[i] : i \in DOMAIN Fields(typ)} :
                        f.name = fieldName).kind]
    ELSE [ok |-> FALSE, kind |-> "invalid"]

\* The zero value of a field kind.
ZeroOf(kind) ==
    CASE kind = "string" -> <<>>
      [] kind = "bool" -> FALSE
      [] OTHER -> 0

\* The zero value of a struct type: reflect.New(typ).Elem(), or SetZero.
Zero(typ) == [f \in FieldNames(typ) |-> ZeroOf(FieldByName(typ, f).kind)]

\* A struct value boxed in an interface{}; the nil interface.
Iface(typ, value) == [type |-> typ, value |-> value]
NilIface == [type |-> "nil", value |-> <<>>]

-----------------------------------------------------------------------------
(* Number parsing: strconv.ParseUint / ParseInt with base 0. *)

DigitChars == <<"0", "1", "2", "3", "4", "5", "6", "7", "8", "9",
                "a", "b", "c", "d", "e", "f">>

UpperDigitChars == <<"0", "1", "2", "3", "4", "5", "6", "7", "8", "9",
                     "A", "B", "C", "D", "E", "F">>

\* The value of a digit character in either case, or -1.
DigitVal(c) ==
    IF \E i \in DOMAIN DigitChars : DigitChars[i] = c
    THEN (CHOOSE i \in DOMAIN DigitChars : DigitChars[i] = c) - 1
    ELSE IF \E i \in DOMAIN UpperDigitChars : UpperDigitChars[i] = c
    THEN (CHOOSE i \in DOMAIN UpperDigitChars : UpperDigitChars[i] = c) - 1
    ELSE -1

\* Whether n needs more than bitSize bits.  The model's numbers stay below
\* 2^31, which a 32- or 64-bit limit never rejects.
Exceeds(n, bitSize) == bitSize < 31 /\ n >= 2 ^ bitSize

RECURSIVE parseDigits(_, _, _, _, _)
\* The digit loop of ParseUint: "ok", "syntax" or "range".
parseDigits(s, i, base, n, bitSize) ==
    IF i > Len(s) THEN [st |-> "ok", n |-> n]
    ELSE LET d == DigitVal(s[i]) IN
         IF d < 0 \/ d >= base THEN [st |-> "syntax", n |-> 0]
         ELSE IF Exceeds(n * base + d, bitSize) THEN [st |-> "range", n |-> 0]
         ELSE parseDigits(s, i + 1, base, n * base + d, bitSize)

\* strconv.ParseUint(s, 0, bitSize), for texts without the underscores
\* that base 0 lets separate digits.
ParseUint(s, bitSize) ==
    IF Len(s) = 0 THEN [st |-> "syntax", n |-> 0]
    ELSE LET prefixed == /\ s[1] = "0"
                         /\ Len(s) >= 3
                         /\ s[2] \in {"b", "B", "o", "O", "x", "X"}
             base == IF s[1] # "0" THEN 10
                     ELSE IF ~prefixed THEN 8
                     ELSE IF s[2] \in {"b", "B"} THEN 2
                     ELSE IF s[2] \in {"o", "O"} THEN 8
                     ELSE 16
             digits == IF s[1] # "0" THEN s
                       ELSE IF ~prefixed THEN SubSeq(s, 2, Len(s))
                       ELSE SubSeq(s, 3, Len(s))
         IN parseDigits(digits, 1, base, 0, bitSize)

\* Mutant: ParseInt that takes no sign.
ParseInt_NoSign(s, bitSize) ==
    IF Len(s) = 0 THEN [st |-> "syntax", n |-> 0] ELSE ParseUint(s, bitSize)

\* Mutant: ParseInt that takes a minus sign and no plus sign.
ParseInt_NoPlus(s, bitSize) ==
    IF Len(s) = 0 THEN [st |-> "syntax", n |-> 0]
    ELSE IF s[1] # "-" THEN ParseUint(s, bitSize)
    ELSE LET un == ParseUint(SubSeq(s, 2, Len(s)), bitSize) IN
         IF un.st # "ok" THEN [st |-> un.st, n |-> 0]
         ELSE IF Exceeds(un.n - 1, bitSize - 1) THEN [st |-> "range", n |-> 0]
         ELSE [st |-> "ok", n |-> -un.n]

\* strconv.ParseInt(s, 0, bitSize)
ParseInt(s, bitSize) ==
    IF Len(s) = 0 THEN [st |-> "syntax", n |-> 0]
    ELSE LET neg == s[1] = "-"
             body == IF s[1] \in {"+", "-"} THEN SubSeq(s, 2, Len(s)) ELSE s
             un == ParseUint(body, bitSize)
         IN IF un.st = "syntax" THEN [st |-> "syntax", n |-> 0]
            ELSE IF un.st = "range" THEN [st |-> "range", n |-> 0]
            ELSE IF ~neg /\ Exceeds(un.n, bitSize - 1) THEN [st |-> "range", n |-> 0]
            ELSE IF neg /\ Exceeds(un.n - 1, bitSize - 1) THEN [st |-> "range", n |-> 0]
            ELSE [st |-> "ok", n |-> IF neg THEN -un.n ELSE un.n]

\* Bit width of an integer kind (int is 64 bits wide).
KindBits(kind) ==
    CASE kind \in {"int8", "uint8"} -> 8
      [] kind \in {"int16", "uint16"} -> 16
      [] kind \in {"int32", "uint32"} -> 32
      [] OTHER -> 64

\* reflect.Value.OverflowInt
OverflowInt(kind, n) ==
    IF n >= 0 THEN Exceeds(n, KindBits(kind) - 1) ELSE Exceeds(-n - 1, KindBits(kind) - 1)

\* reflect.Value.OverflowUint
OverflowUint(kind, n) == Exceeds(n, KindBits(kind))

IntKinds == {"int", "int8", "int16", "int32", "int64"}
UintKinds == {"uint", "uint8", "uint16", "uint32", "uint64"}
FloatKinds == {"float32", "float64"}

\* strconv.ParseBool
ParseBool(s) ==
    IF s \in { <<"1">>, <<"t">>, <<"T">>, <<"T", "R", "U", "E">>,
               <<"t", "r", "u", "e">>, <<"T", "r", "u", "e">> }
    THEN [st |-> "ok", b |-> TRUE]
    ELSE IF s \in { <<"0">>, <<"f">>, <<"F">>, <<"F", "A", "L", "S", "E">>,
                    <<"f", "a", "l", "s", "e">>, <<"F", "a", "l", "s", "e">> }
    THEN [st |-> "ok", b |-> FALSE]
    ELSE [st |-> "syntax", b |-> FALSE]

\* setFieldFromCell: the error, and the value the field is set to.  The
\* float kinds (strconv.ParseFloat) are left out: no component type here
\* has a float field.
setFieldFromCell(kind, cell) ==
    IF kind \in IntKinds
    THEN LET p == ParseInt(cell, 64) IN
         IF p.st = "syntax" THEN [err |-> Err("strconv.ErrSyntax", cell), value |-> 0]
         ELSE IF p.st = "range" THEN [err |-> Err("strconv.ErrRange", cell), value |-> 0]
         ELSE IF OverflowInt(kind, p.n)
         THEN [err |-> Err("too large", cell), value |-> 0]
         ELSE [err |-> NoErr, value |-> p.n]
    ELSE IF kind \in UintKinds
    THEN LET p == ParseUint(cell, 64) IN
         IF p.st = "syntax" THEN [err |-> Err("strconv.ErrSyntax", cell), value |-> 0]
         ELSE IF p.st = "range" THEN [err |-> Err("strconv.ErrRange", cell), value |-> 0]
         ELSE IF OverflowUint(kind, p.n)
         THEN [err |-> Err("too large", cell), value |-> 0]
         ELSE [err |-> NoErr, value |-> p.n]
    ELSE IF kind = "string"
    THEN [err |-> NoErr, value |-> cell]
    ELSE IF kind = "bool"
    THEN LET p == ParseBool(cell) IN
         IF p.st = "syntax" THEN [err |-> Err("strconv.ErrSyntax", cell), value |-> FALSE]
         ELSE [err |-> NoErr, value |-> p.b]
    ELSE CASE kind \notin FloatKinds ->
              [err |-> Err("unhandled kind", <<>>), value |-> 0]

-----------------------------------------------------------------------------
(* Header names and the schema. *)

\* Position of the first "." of a text, or 0.
IndexOfDot(s) ==
    IF \E i \in 1..Len(s) : s[i] = "."
    THEN CHOOSE i \in 1..Len(s) : s[i] = "." /\ \A j \in 1..(i - 1) : s[j] # "."
    ELSE 0

\* strings.SplitN(qualName, ".", 2) and the two returns that can be taken.
parseHeaderColumnName(qualName) ==
    LET i == IndexOfDot(qualName) IN
    IF i = 0
    THEN [componentName |-> qualName, fieldName |-> <<>>, err |-> NoErr]
    ELSE [componentName |-> SubSeq(qualName, 1, i - 1),
          fieldName |-> SubSeq(qualName, i + 1, Len(qualName)),
          err |-> NoErr]

\* A Go map[string]reflect.Type built by assigning entries[i].name -> .type
\* in order: a later entry overwrites an earlier one of the same name.
\* Mutant: an earlier entry is kept when a later one has its name.
MapOf_KeepsFirst(entries) ==
    [n \in {entries[i].name : i \in DOMAIN entries} |->
        LET first == CHOOSE i \in DOMAIN entries :
                         /\ entries[i].name = n
                         /\ \A j \in DOMAIN entries : entries[j].name = n => i <= j
        IN entries[first].type]

MapOf(entries) ==
    [n \in {entries[i].name : i \in DOMAIN entries} |->
        LET last == CHOOSE i \in DOMAIN entries :
                        /\ entries[i].name = n
                        /\ \A j \in DOMAIN entries : entries[j].name = n => j <= i
        IN entries[last].type]

\* The nil map of a Reader that was given no schema.
NilSchema == MapOf(<<>>)

\* Mutant: names are compared without regard to case.
UpperOf(ch) ==
    CASE ch = "a" -> "A" [] ch = "c" -> "C" [] ch = "m" -> "M" [] ch = "u" -> "U"
      [] ch = "n" -> "N" [] ch = "h" -> "H" [] ch = "d" -> "D" [] OTHER -> ch

FoldCase(name) == [i \in DOMAIN name |-> UpperOf(name[i])]

validateHeaderColumnName_FoldsCase(rd, componentName, fieldName) ==
    IF \A n \in DOMAIN rd.schema : FoldCase(n) # FoldCase(componentName)
    THEN [componentType |-> "nil", err |-> Err("not defined in the schema", componentName)]
    ELSE LET componentType ==
                 rd.schema[CHOOSE n \in DOMAIN rd.schema : FoldCase(n) = FoldCase(componentName)]
         IN
         IF Len(fieldName) > 0
            /\ \A f \in FieldNames(componentType) : FoldCase(f) # FoldCase(fieldName)
         THEN [componentType |-> "nil",
               err |-> Err("does not have field", componentName \o <<".">> \o fieldName)]
         ELSE [componentType |-> componentType, err |-> NoErr]

validateHeaderColumnName(rd, componentName, fieldName) ==
    IF componentName \notin DOMAIN rd.schema
    THEN [componentType |-> "nil", err |-> Err("not defined in the schema", componentName)]
    ELSE LET componentType == rd.schema[componentName] IN
         IF Len(fieldName) > 0 /\ ~FieldByName(componentType, fieldName).ok
         THEN [componentType |-> "nil",
               err |-> Err("does not have field", componentName \o <<".">> \o fieldName)]
         ELSE [componentType |-> componentType, err |-> NoErr]

-----------------------------------------------------------------------------
(* Descriptors. *)

\* slices.Index, 1-based; 0 when absent.
SliceIndex(s, x) ==
    IF \E i \in DOMAIN s : s[i] = x
    THEN CHOOSE i \in DOMAIN s : s[i] = x /\ \A j \in DOMAIN s : s[j] = x => i <= j
    ELSE 0

\* Mutant: every column gets a slot of its own.
extendResultDescriptor_AlwaysAppends(rd, componentType) ==
    [r |-> [rd EXCEPT !.componentTypes = Append(@, componentType),
                      !.componentValues = Append(@, Zero(componentType))],
     resultIndex |-> Len(rd.componentTypes) + 1]

extendResultDescriptor(rd, componentType) ==
    LET found == SliceIndex(rd.componentTypes, componentType) IN
    IF found = 0
    THEN [r |-> [rd EXCEPT !.componentTypes = Append(@, componentType),
                           !.componentValues = Append(@, Zero(componentType))],
          resultIndex |-> Len(rd.componentTypes) + 1]
    ELSE [r |-> rd, resultIndex |-> found]

createColumnDescriptor(rd, resultIndex, fieldName) ==
    [rd EXCEPT !.columnDescriptors =
        Append(@, [resultIndex |-> resultIndex, fieldName |-> fieldName])]

RECURSIVE createDescriptorsLoop(_, _, _)
\* The loop of createDescriptors over the header cells, from cell i on.
createDescriptorsLoop(rd, row, i) ==
    IF i > Len(row) THEN [r |-> rd, err |-> NoErr]
    ELSE LET name == parseHeaderColumnName(row[i]) IN
         IF name.err # NoErr THEN [r |-> rd, err |-> name.err]
         ELSE LET v == validateHeaderColumnName(rd, name.componentName, name.fieldName) IN
              IF v.err # NoErr THEN [r |-> rd, err |-> v.err]
              ELSE LET e == extendResultDescriptor(rd, v.componentType)
                       next == IF Len(name.fieldName) > 0
                               THEN createColumnDescriptor(e.r, e.resultIndex, name.fieldName)
                               ELSE e.r
                   IN createDescriptorsLoop(next, row, i + 1)

\* The slices of the heap.  A slice nobody refers to any more is free.
SliceIds == {1, 2}
FreeSlice == [live |-> FALSE, elems |-> <<>>]

\* Mutant: the first slice is used again for every table.
MakeSlice_ReusesFirst(hp, n) ==
    [id |-> 1,
     heap |-> [hp EXCEPT ![1] = [live |-> TRUE, elems |-> [k \in 1..n |-> NilIface]]]]

\* make([]interface{}, n): a fresh slice of n nil interfaces.
MakeSlice(hp, n) ==
    LET id == CHOOSE i \in SliceIds : ~hp[i].live /\ \A j \in SliceIds : ~hp[j].live => i <= j
    IN [id |-> id,
        heap |-> [hp EXCEPT ![id] = [live |-> TRUE, elems |-> [k \in 1..n |-> NilIface]]]]

createDescriptors(rd, hp, row) ==
    LET out == createDescriptorsLoop([rd EXCEPT !.columnDescriptors = <<>>], row, 1) IN
    IF out.err # NoErr THEN [r |-> out.r, heap |-> hp, err |-> out.err]
    ELSE LET m == MakeSlice(hp, Len(out.r.componentTypes)) IN
         [r |-> [out.r EXCEPT !.results = m.id], heap |-> m.heap, err |-> NoErr]

-----------------------------------------------------------------------------
(* Rows. *)

RECURSIVE parseRowLoop(_, _, _)
\* The loop of parseRow over the cells of a data row, from cell columnNum on.
\* Indexing columnDescriptors out of range is a runtime panic.
parseRowLoop(rd, row, columnNum) ==
    IF columnNum > Len(row) THEN [r |-> rd, err |-> NoErr, panic |-> FALSE]
    ELSE IF Len(row[columnNum]) = 0 THEN parseRowLoop(rd, row, columnNum + 1)
    ELSE IF columnNum > Len(rd.columnDescriptors)
    THEN [r |-> rd, err |-> NoErr, panic |-> TRUE]
    ELSE LET columnDescriptor == rd.columnDescriptors[columnNum]
             typ == rd.componentTypes[columnDescriptor.resultIndex]
             field == FieldByName(typ, columnDescriptor.fieldName)
             set == setFieldFromCell(field.kind, row[columnNum])
         IN IF set.err # NoErr THEN [r |-> rd, err |-> set.err, panic |-> FALSE]
            ELSE parseRowLoop(
                    [rd EXCEPT !.componentValues[columnDescriptor.resultIndex]
                                                [columnDescriptor.fieldName] = set.value],
                    row, columnNum + 1)

\* Zero all values because they are reused across reads.
zeroValues(rd) ==
    [rd EXCEPT !.componentValues =
        [i \in DOMAIN rd.componentValues |-> Zero(rd.componentTypes[i])]]

\* parseRow, given what the pull on the row source returned.
parseRow(rd, pull) ==
    IF pull.err # NoErr THEN [r |-> rd, err |-> pull.err, panic |-> FALSE]
    ELSE parseRowLoop(zeroValues(rd), pull.row, 1)

-----------------------------------------------------------------------------
(* Clear, and the steps of Read. *)

\* Mutant: Clear that leaves the result descriptor in place.
Reader_Clear_KeepsSlots(rd) ==
    [rd EXCEPT !.permanentErr = NoErr,
               !.hasDescriptors = FALSE,
               !.columnDescriptors = <<>>]

\* Mutant: only the permanent error is cleared.
Reader_Clear_KeepsDescriptors(rd) == [rd EXCEPT !.permanentErr = NoErr]

\* Mutant: a Clear that needs two calls, the first dropping the column
\* descriptors and the flag, the second the rest.
Reader_Clear_InTwoCalls(rd) ==
    IF rd.hasDescriptors
    THEN [rd EXCEPT !.permanentErr = NoErr,
                    !.hasDescriptors = FALSE,
                    !.columnDescriptors = <<>>]
    ELSE [rd EXCEPT !.permanentErr = NoErr,
                    !.componentTypes = <<>>,
                    !.componentValues = <<>>,
                    !.results = 0,
                    !.columnDescriptors = <<>>]

Reader_Clear(rd) ==
    [rd EXCEPT !.permanentErr = NoErr,
               !.hasDescriptors = FALSE,
               !.componentTypes = <<>>,
               !.componentValues = <<>>,
               !.results = 0,
               !.columnDescriptors = <<>>]

\* Mutant: the error is set without the Clear before it.
latch_WithoutClear(rd, err) == [rd EXCEPT !.permanentErr = err]

\* r.Clear(); r.permanentErr = err
latch(rd, err) == [Reader_Clear(rd) EXCEPT !.permanentErr = err]

\* What Read returns: a slice (0 is nil) and an error.
Return(data, err) == [data |-> data, err |-> err, panic |-> FALSE]
Panicked == [data |-> 0, err |-> NoErr, panic |-> TRUE]
NoReturn == [data |-> 0, err |-> NoErr, panic |-> FALSE]

\* Read with a permanent error set.
readLatched(rd, hp) == [r |-> rd, heap |-> hp, ret |-> Return(0, rd.permanentErr)]

\* Mutant: a header that does not build is reported and not latched.
readHeader_BuildErrorNotLatched(rd, hp, pull) ==
    IF pull.err = EOF
    THEN [r |-> rd, heap |-> hp, ret |-> Return(0, HeaderEOFErr), built |-> FALSE]
    ELSE IF pull.err # NoErr
    THEN [r |-> rd, heap |-> hp, ret |-> Return(0, pull.err), built |-> FALSE]
    ELSE LET cd == createDescriptors(rd, hp, pull.row) IN
         IF cd.err # NoErr
         THEN [r |-> rd, heap |-> hp, ret |-> Return(0, cd.err), built |-> FALSE]
         ELSE [r |-> [cd.r EXCEPT !.hasDescriptors = TRUE], heap |-> cd.heap,
               ret |-> NoReturn, built |-> TRUE]

\* Mutant: end-of-stream in place of the header is latched like other errors.
readHeader_EOFLatched(rd, hp, pull) ==
    IF pull.err = EOF
    THEN [r |-> latch(rd, HeaderEOFErr), heap |-> hp,
          ret |-> Return(0, HeaderEOFErr), built |-> FALSE]
    ELSE IF pull.err # NoErr
    THEN [r |-> rd, heap |-> hp, ret |-> Return(0, pull.err), built |-> FALSE]
    ELSE LET cd == createDescriptors(rd, hp, pull.row) IN
         IF cd.err # NoErr
         THEN [r |-> latch(cd.r, cd.err), heap |-> hp,
               ret |-> Return(0, cd.err), built |-> FALSE]
         ELSE [r |-> [cd.r EXCEPT !.hasDescriptors = TRUE], heap |-> cd.heap,
               ret |-> NoReturn, built |-> TRUE]

\* Mutant: end-of-stream in place of the header is returned as it is.
readHeader_EOFAsEndOfStream(rd, hp, pull) ==
    IF pull.err # NoErr
    THEN [r |-> rd, heap |-> hp, ret |-> Return(0, pull.err), built |-> FALSE]
    ELSE LET cd == createDescriptors(rd, hp, pull.row) IN
         IF cd.err # NoErr
         THEN [r |-> latch(cd.r, cd.err), heap |-> hp,
               ret |-> Return(0, cd.err), built |-> FALSE]
         ELSE [r |-> [cd.r EXCEPT !.hasDescriptors = TRUE], heap |-> cd.heap,
               ret |-> NoReturn, built |-> TRUE]

\* Mutant: the flag is set although the header did not build.
readHeader_FlagOnFailure(rd, hp, pull) ==
    IF pull.err = EOF
    THEN [r |-> rd, heap |-> hp, ret |-> Return(0, HeaderEOFErr), built |-> FALSE]
    ELSE IF pull.err # NoErr
    THEN [r |-> rd, heap |-> hp, ret |-> Return(0, pull.err), built |-> FALSE]
    ELSE LET cd == createDescriptors(rd, hp, pull.row) IN
         IF cd.err # NoErr
         THEN [r |-> [latch(cd.r, cd.err) EXCEPT !.hasDescriptors = TRUE], heap |-> hp,
               ret |-> Return(0, cd.err), built |-> FALSE]
         ELSE [r |-> [cd.r EXCEPT !.hasDescriptors = TRUE], heap |-> cd.heap,
               ret |-> NoReturn, built |-> TRUE]

\* Read after createDescriptors returned cd: the error is latched, or the
\* flag is set.
afterCreateDescriptors(cd, hp) ==
    IF cd.err # NoErr
    THEN [r |-> latch(cd.r, cd.err), heap |-> hp,
          ret |-> Return(0, cd.err), built |-> FALSE]
    ELSE [r |-> [cd.r EXCEPT !.hasDescriptors = TRUE], heap |-> cd.heap,
          ret |-> NoReturn, built |-> TRUE]

\* Read without descriptors, given the pull for the header row.  "built"
\* says that Read goes on to the data row.
readHeader(rd, hp, pull) ==
    IF pull.err = EOF
    THEN [r |-> rd, heap |-> hp, ret |-> Return(0, HeaderEOFErr), built |-> FALSE]
    ELSE IF pull.err # NoErr
    THEN [r |-> rd, heap |-> hp, ret |-> Return(0, pull.err), built |-> FALSE]
    ELSE afterCreateDescriptors(createDescriptors(rd, hp, pull.row), hp)

\* Return results from the last read: every value is copied into the slice.
snapshotResults(rd, hp) ==
    [hp EXCEPT ![rd.results].elems =
        [i \in DOMAIN rd.componentValues |->
            Iface(rd.componentTypes[i], rd.componentValues[i])]]

\* Mutant: end-of-stream at a data row is returned and not latched.
readRow_EOFNotLatched(rd, hp, pull) ==
    LET pr == parseRow(rd, pull) IN
    IF pr.panic THEN [r |-> pr.r, heap |-> hp, ret |-> Panicked]
    ELSE IF pr.err = EOF
    THEN [r |-> pr.r, heap |-> hp, ret |-> Return(0, pr.err)]
    ELSE IF pr.err # NoErr
    THEN [r |-> latch(pr.r, pr.err), heap |-> hp, ret |-> Return(0, pr.err)]
    ELSE [r |-> pr.r, heap |-> snapshotResults(pr.r, hp), ret |-> Return(pr.r.results, NoErr)]

\* Read after parseRow returned pr: the panic goes through, the error is
\* latched, or the results are returned.
afterParseRow(pr, hp) ==
    IF pr.panic THEN [r |-> pr.r, heap |-> hp, ret |-> Panicked]
    ELSE IF pr.err # NoErr
    THEN [r |-> latch(pr.r, pr.err), heap |-> hp, ret |-> Return(0, pr.err)]
    ELSE [r |-> pr.r, heap |-> snapshotResults(pr.r, hp), ret |-> Return(pr.r.results, NoErr)]

\* Read with descriptors, given the pull for the data row.
readRow(rd, hp, pull) == afterParseRow(parseRow(rd, pull), hp)

-----------------------------------------------------------------------------
(* The row source: csv.Reader.Read.  It yields a row, io.EOF (and then    *)
(* io.EOF for ever) or a parse error.                                      *)

Row(cells) == [row |-> cells, err |-> NoErr]
Fail(err) == [row |-> <<>>, err |-> err]

\* A pull as Read made it: for the header row, or for a data row.
Pulled(as, pull) == [as |-> as, row |-> pull.row, err |-> pull.err]

SourceRead(s, rows) ==
    IF s.eof THEN {Fail(EOF)}
    ELSE {Row(w) : w \in rows} \cup {Fail(EOF), Fail(CsvErr)}

AfterPull(s, pull) == IF pull.err = EOF THEN [s EXCEPT !.eof = TRUE] ELSE s

\* Header cells: C.n, A.h, A.d, the field-less M, and U (no schema has it).
HeaderCells ==
    { <<"C", ".", "n">>, <<"A", ".", "h">>, <<"A", ".", "d">>, <<"M">>, <<"U">> }

\* Data cells: the empty cell, and a text that is a number, a string and
\* no boolean.
DataCells == { <<>>, <<"7">> }

HeaderRows == [1..NCols -> HeaderCells]
DataRows == [1..NCols -> DataCells]

-----------------------------------------------------------------------------
(* The schemas callers set. *)

\* SetSchema arguments: lists of component values, by their types.
SchemaLists == { <<Character, Attributes, Monster>> }

\* SetPrototypeSchema arguments: the visible fields of the prototype.
Prototypes ==
    { << [name |-> <<"C">>, type |-> Character],
         [name |-> <<"A">>, type |-> Attributes],
         [name |-> <<"M">>, type |-> Monster] >>,
      << [name |-> <<"A">>, type |-> Attributes],
         [name |-> <<"M">>, type |-> Attributes] >> }

\* Mutant: SetSchema drops the descriptors built under the old schema.
Reader_SetSchema_DropsDescriptors(rd, components) ==
    [Reader_Clear(rd) EXCEPT
        !.permanentErr = rd.permanentErr,
        !.schema =
            MapOf([i \in DOMAIN components |->
                      [name |-> TypeName(components[i]), type |-> components[i]]])]

Reader_SetSchema(rd, components) ==
    [rd EXCEPT !.schema =
        MapOf([i \in DOMAIN components |->
                  [name |-> TypeName(components[i]), type |-> components[i]]])]

\* Mutant: the prototype's entries are added to the schema that was set.
Reader_SetPrototypeSchema_AddsToSchema(rd, fields) ==
    [rd EXCEPT !.schema =
        [n \in DOMAIN rd.schema \cup DOMAIN MapOf(fields) |->
            IF n \in DOMAIN MapOf(fields) THEN MapOf(fields)[n] ELSE rd.schema[n]]]

Reader_SetPrototypeSchema(rd, fields) == [rd EXCEPT !.schema = MapOf(fields)]

-----------------------------------------------------------------------------
(* The state machine. *)

\* A slice is kept alive by the Reader's results field and by the caller.
Collect(hp, rd, hl) ==
    [id \in SliceIds |-> IF id \in {rd.results, hl.ref} THEN hp[id] ELSE FreeSlice]

NoHeld == [ref |-> 0, seen |-> <<>>]

NoHeader == [row |-> <<>>, schema |-> NilSchema]
Header(row, schema) == [row |-> row, schema |-> schema]

\* The Reader as NewReader makes it, were its schema set.
NewReader(schema) ==
    [schema |-> schema,
     permanentErr |-> NoErr,
     hasDescriptors |-> FALSE,
     componentTypes |-> <<>>,
     componentValues |-> <<>>,
     results |-> 0,
     columnDescriptors |-> <<>>]

Init ==
    /\ r = NewReader(NilSchema)
    /\ heap = [id \in SliceIds |-> FreeSlice]
    /\ src = [eof |-> FALSE]
    /\ op = "NewReader"
    /\ ret = NoReturn
    /\ pulled = <<>>
    /\ header = NoHeader
    /\ tables = 0
    /\ held = NoHeld

\* The end of a Read: the Reader, the heap, the source and what was observed.
\* What the caller holds is left to the caller.
Finish(out, s, pulls, hdr) ==
    /\ r' = out.r
    /\ heap' = Collect(out.heap, out.r, held)
    /\ src' = s
    /\ op' = "Read"
    /\ ret' = out.ret
    /\ pulled' = pulls
    /\ header' = IF out.r.hasDescriptors THEN hdr ELSE NoHeader
    /\ tables' = IF Len(pulls) = 2 /\ tables < MaxTables THEN tables + 1 ELSE tables

\* Read after the header row hp was pulled and readHeader returned h, the
\* source being left as s: Read returns, or goes on to the data row.
ReadOn(h, hp, s, dataRows) ==
    IF ~h.built
    THEN Finish(h, s, <<Pulled("header", hp)>>, NoHeader)
    ELSE \E dp \in SourceRead(s, dataRows) :
            Finish(readRow(h.r, h.heap, dp), AfterPull(s, dp),
                   <<Pulled("header", hp), Pulled("data", dp)>>,
                   Header(hp.row, r.schema))

\* Reader.Read, with the rows the source may yield as header and as data.
ReadFrom(headerRows, dataRows) ==
    IF r.permanentErr # NoErr
    THEN Finish(readLatched(r, heap), src, <<>>, header)
    ELSE IF ~r.hasDescriptors
    THEN \E hp \in SourceRead(src, headerRows) :
            ReadOn(readHeader(r, heap, hp), hp, AfterPull(src, hp), dataRows)
    ELSE \E dp \in SourceRead(src, dataRows) :
            Finish(readRow(r, heap, dp), AfterPull(src, dp),
                   <<Pulled("data", dp)>>, header)

Read == ReadFrom(HeaderRows, DataRows) /\ UNCHANGED held

\* What a call that is no Read leaves of the last Read's observations.
Called(name, rd) ==
    /\ r' = rd
    /\ heap' = Collect(heap, rd, held)
    /\ op' = name
    /\ ret' = NoReturn
    /\ pulled' = <<>>
    /\ header' = IF rd.hasDescriptors THEN header ELSE NoHeader
    /\ UNCHANGED <<src, tables, held>>

Clear == Called("Clear", Reader_Clear(r))

SetSchema == \E components \in SchemaLists : Called("SetSchema", Reader_SetSchema(r, components))

SetPrototypeSchema ==
    \E fields \in Prototypes : Called("SetPrototypeSchema", Reader_SetPrototypeSchema(r, fields))

Next == Read \/ Clear \/ SetSchema \/ SetPrototypeSchema

Spec == Init /\ [][Next]_vars

-----------------------------------------------------------------------------
(* The caller that keeps what Read returned.  Read returns the Reader's    *)
(* own results slice, so the caller holds a reference into the heap.  The  *)
(* tables of this specification name only fields, C.n and A.h.             *)

FieldHeaderRows == [1..NCols -> { <<"C", ".", "n">>, <<"A", ".", "h">> }]

ReadFields == ReadFrom(FieldHeaderRows, DataRows) /\ UNCHANGED held

\* The caller keeps the slice the last Read returned and notes its elements.
Retain ==
    /\ op = "Read"
    /\ ret.data # 0
    /\ held # [ref |-> ret.data, seen |-> heap[ret.data].elems]
    /\ held' = [ref |-> ret.data, seen |-> heap[ret.data].elems]
    /\ heap' = Collect(heap, r, held')
    /\ UNCHANGED <<r, src, op, ret, pulled, header, tables>>

NextRetain == ReadFields \/ Clear \/ SetSchema \/ Retain

SpecRetain == Init /\ [][NextRetain]_vars

-----------------------------------------------------------------------------
(* Properties of Read, Clear and the error latch. *)

\* The last Read pulled exactly these rows, given by role and error.
LastPull == pulled[Len(pulled)]
PulledHeaderOnly(err) ==
    op = "Read" /\ Len(pulled) = 1 /\ pulled[1].as = "header" /\ pulled[1].err = err
PulledData(err) ==
    op = "Read" /\ Len(pulled) >= 1 /\ LastPull.as = "data" /\ LastPull.err = err

\* A Read made with this error latched returns it with no data, pulls
\* nothing and leaves the Reader and the source as they are.
LatchedRead ==
    /\ ret' = Return(0, r.permanentErr)
    /\ pulled' = <<>>
    /\ r' = r
    /\ src' = src

\* The component names of a header row.
ComponentNames(row) ==
    {parseHeaderColumnName(row[i]).componentName : i \in DOMAIN row}

\* C1: every Read ends in exactly one of: data and no error, or an error
\* and no data (nil) -- never both, never neither.
C1_DataXorError ==
    op = "Read" =>
        /\ ~ret.panic
        /\ \/ (ret.data # 0 /\ ret.err = NoErr)
           \/ (ret.data = 0 /\ ret.err # NoErr)

\* What remains of C1 where Read returns: data or else an error.
C1_ReturnedDataXorError ==
    (op = "Read" /\ ~ret.panic) =>
        \/ (ret.data # 0 /\ ret.err = NoErr)
        \/ (ret.data = 0 /\ ret.err # NoErr)

HeaderErrKinds == {"not defined in the schema", "does not have field"}

\* C2: a header row that names a component the schema does not hold makes
\* the Read that consumes it fail with no data and latch the error; every
\* Read that follows without a Clear returns that latched error and pulls
\* no row.
C2_UnknownComponentLatched ==
    /\ [](\A hrow \in HeaderRows :
            (/\ PulledHeaderOnly(NoErr)
             /\ pulled[1].row = hrow
             /\ ComponentNames(hrow) \ DOMAIN r.schema # {})
            => /\ ret.data = 0
               /\ ret.err.kind \in HeaderErrKinds
               /\ r.permanentErr = ret.err)
    /\ [][(r.permanentErr.kind \in HeaderErrKinds /\ op' = "Read") => LatchedRead]_vars

C2_Witness ==
    /\ op = "Read"
    /\ pulled = <<>>
    /\ ret.data = 0
    /\ ret.err.kind = "not defined in the schema"
    /\ ret.err = r.permanentErr
    /\ ~src.eof

\* C3: when the pull for a data row finds the source exhausted (also right
\* after the header), Read returns the end-of-stream signal with no data,
\* and every Read that follows without a Clear returns it again and pulls
\* nothing.
C3_EndOfStreamLatched ==
    /\ [](PulledData(EOF) => (ret = Return(0, EOF) /\ r.permanentErr = EOF))
    /\ [][(r.permanentErr = EOF /\ op' = "Read") => LatchedRead]_vars

C3_Witness ==
    /\ PulledData(EOF)
    /\ Len(pulled) = 2
    /\ pulled[1].as = "header"
    /\ ret = Return(0, EOF)
    /\ r.permanentErr = EOF

CoercionErrKinds == {"strconv.ErrSyntax", "strconv.ErrRange", "too large", "unhandled kind"}

\* C5: when coercing a cell of a data row fails, Read returns that error
\* and no data, the error is latched with the descriptors dropped, and
\* every Read that follows without a Clear returns the same error and pulls
\* nothing, whatever rows the source still holds.
C5_CoercionErrorLatched ==
    /\ [][(/\ op' = "Read"
           /\ r.hasDescriptors
           /\ r.permanentErr = NoErr
           /\ Len(pulled') = 1
           /\ pulled'[1].err = NoErr
           /\ parseRow(r, Row(pulled'[1].row)).err.kind \in CoercionErrKinds)
          => /\ ret' = Return(0, parseRow(r, Row(pulled'[1].row)).err)
             /\ r' = latch(r, ret'.err)
             /\ ~r'.hasDescriptors]_vars
    /\ [](PulledData(NoErr) /\ ret.err.kind \in CoercionErrKinds
            => ret.data = 0 /\ r.permanentErr = ret.err)
    /\ [][(r.permanentErr.kind \in CoercionErrKinds /\ op' = "Read") => LatchedRead]_vars

C5_Witness ==
    /\ op = "Read"
    /\ pulled = <<>>
    /\ ret.data = 0
    /\ ret.err.kind \in CoercionErrKinds
    /\ ret.err = r.permanentErr
    /\ ~src.eof

\* C6: after Clear, whatever the state before, no error is latched and no
\* descriptor or slot is left; the next Read takes the next row of the
\* source as a header row, builds the descriptors from it alone and, when
\* they build, decodes the row that follows with them.
C6_ClearThenHeader ==
    /\ [](op = "Clear" => r = NewReader(r.schema))
    /\ [][(op = "Clear" /\ op' = "Read") =>
            /\ pulled'[1].as = "header"
            /\ LET built == createDescriptors(NewReader(r.schema), heap, pulled'[1].row)
               IN (pulled'[1].err = NoErr /\ built.err = NoErr) =>
                    /\ Len(pulled') = 2
                    /\ pulled'[2].as = "data"
                    /\ header' = IF r'.hasDescriptors
                                  THEN Header(pulled'[1].row, r.schema)
                                  ELSE NoHeader
                    /\ LET fresh == readRow([built.r EXCEPT !.hasDescriptors = TRUE],
                                            built.heap, pulled'[2])
                       IN /\ ret' = fresh.ret
                          /\ r' = fresh.r
                          /\ (ret'.data # 0 =>
                                heap'[ret'.data] = fresh.heap[fresh.ret.data])]_vars

C6_Witness ==
    /\ op = "Read"
    /\ tables = 2
    /\ Len(pulled) = 2
    /\ ret.data # 0
    /\ ret.err = NoErr
    /\ heap[ret.data].elems # <<>>

-----------------------------------------------------------------------------
(* Properties of what Read returns. *)

\* C7 as claimed: what the caller kept of a successful Read never changes.
C7_RetainedNeverChanges ==
    held.ref # 0 => heap[held.ref].elems = held.seen

\* C7 as the code has it: the values in the returned slice are copies, but
\* the slice is the Reader's own results slice.  A slice the caller keeps
\* changes only when a later Read succeeds with the same descriptors (no
\* Clear and no failed Read in between), which overwrites its elements; a
\* failed Read, Clear, SetSchema and the Reads of a later table leave it
\* as it is.
C7_RetainedChangesOnlyByNextRow ==
    [][(held.ref # 0 /\ held' = held) =>
        /\ heap'[held.ref].live
        /\ heap'[held.ref].elems # heap[held.ref].elems =>
              /\ op' = "Read"
              /\ ret'.err = NoErr
              /\ r.results = held.ref
              /\ ret'.data = held.ref]_vars

C7_Witness ==
    /\ held.ref # 0
    /\ op = "Read"
    /\ ret.data # 0
    /\ ret.data # held.ref
    /\ heap[held.ref].elems = held.seen
    /\ heap[ret.data].elems # held.seen

\* The header row in force, column by column: the component name, the
\* field name, the component type the schema gave it, the field's kind.
HeaderCol(i) == parseHeaderColumnName(header.row[i])
ColType(i) == header.schema[HeaderCol(i).componentName]
ColKind(i) == FieldByName(ColType(i), HeaderCol(i).fieldName).kind
IsFieldCol(i) == HeaderCol(i).fieldName # <<>>

\* The last Read decoded a data row under the header in force.
DecodedRow ==
    /\ op = "Read"
    /\ header.row # <<>>
    /\ LastPull.as = "data"
    /\ LastPull.err = NoErr

\* The elements of the returned slice, and the value among them of a type.
Returned == heap[ret.data].elems
ReturnedOf(typ) ==
    (CHOOSE e \in {Returned[k] : k \in DOMAIN Returned} : e.type = typ).value

\* Column j names the field of column i and holds a cell.
SameFieldFilled(i, j) ==
    /\ IsFieldCol(j)
    /\ ColType(j) = ColType(i)
    /\ HeaderCol(j).fieldName = HeaderCol(i).fieldName
    /\ LastPull.row[j] # <<>>

\* C8: under a header that built, every non-empty cell of a data row (as
\* wide as the header) is coerced and written to the field that the header
\* cell of its own column names, wherever field-less columns stand.
C8_CellsReachTheirFields ==
    DecodedRow =>
        \A i \in DOMAIN header.row :
            (/\ IsFieldCol(i)
             /\ LastPull.row[i] # <<>>
             /\ setFieldFromCell(ColKind(i), LastPull.row[i]).err = NoErr
             /\ \A j \in DOMAIN header.row : j > i => ~SameFieldFilled(i, j))
            => /\ ~ret.panic
               /\ ret.data # 0
               /\ ReturnedOf(ColType(i))[HeaderCol(i).fieldName]
                    = setFieldFromCell(ColKind(i), LastPull.row[i]).value

\* The first column of the header in force that names a component type.
FirstCol(typ) ==
    CHOOSE i \in DOMAIN header.row :
        ColType(i) = typ /\ \A j \in DOMAIN header.row : ColType(j) = typ => i <= j

\* C9: a successful Read returns one value for each component type the
\* header names and none for any other, in the order in which the header
\* first names them, also when the columns of a component are apart.
C9_OneSlotPerComponent ==
    (op = "Read" /\ ret.data # 0) =>
        LET types == [k \in DOMAIN Returned |-> Returned[k].type] IN
        /\ {types[k] : k \in DOMAIN types} = {ColType(i) : i \in DOMAIN header.row}
        /\ \A k1, k2 \in DOMAIN types :
              k1 < k2 => (types[k1] # types[k2] /\ FirstCol(types[k1]) < FirstCol(types[k2]))
        /\ \A k \in DOMAIN types : DOMAIN Returned[k].value = FieldNames(types[k])

C9_Witness ==
    /\ op = "Read"
    /\ ret.data # 0
    /\ ColType(1) = ColType(3)
    /\ ColType(1) # ColType(2)
    /\ Len(Returned) = 2
    /\ Returned[1].type = ColType(1)
    /\ Returned[2].type = ColType(2)

\* C10: in the result of a Read, a field whose cell is empty in the row
\* holds the zero value of its type, whatever the rows before held.
C10_EmptyCellsAreZero ==
    (DecodedRow /\ ret.data # 0) =>
        \A i \in DOMAIN header.row :
            (/\ IsFieldCol(i)
             /\ LastPull.row[i] = <<>>
             /\ \A j \in DOMAIN header.row : ~SameFieldFilled(i, j))
            => ReturnedOf(ColType(i))[HeaderCol(i).fieldName] = ZeroOf(ColKind(i))

\* The component types the header in force names, and the field columns
\* of a type.
HeaderTypes == {ColType(i) : i \in DOMAIN header.row}
FieldColsOf(typ) == {i \in DOMAIN header.row : IsFieldCol(i) /\ ColType(i) = typ}

\* No field column of the type holds a cell in the last row (so also a
\* type that only field-less columns name).
NoFieldCell(typ) == \A i \in FieldColsOf(typ) : LastPull.row[i] = <<>>

\* C11: a component type the header names but whose field columns are all
\* empty in a data row (or that only field-less columns name) is in that
\* Read's result as the zero value of its type, never left out and never
\* nil, and its absence of cells is no error: Read returns, and a row of
\* empty cells decodes.
C11_UnpopulatedComponentIsZero ==
    DecodedRow =>
        /\ ~ret.panic
        /\ (\A i \in DOMAIN header.row : LastPull.row[i] = <<>>) => ret.data # 0
        /\ ret.data # 0 =>
              \A typ \in HeaderTypes :
                  NoFieldCell(typ) =>
                      /\ \E k \in DOMAIN Returned : Returned[k].type = typ
                      /\ ReturnedOf(typ) = Zero(typ)

\* The field columns of the header in force stand before its field-less
\* columns, and the field-less columns of the last row are empty: the
\* rows for which the column number is the index of the column descriptor.
ColumnsAlign ==
    /\ \A i \in DOMAIN header.row : IsFieldCol(i) => \A j \in 1..(i - 1) : IsFieldCol(j)
    /\ \A i \in DOMAIN header.row : ~IsFieldCol(i) => LastPull.row[i] = <<>>

\* What remains of C11 for such rows.
C11_WhereColumnsAlign ==
    (DecodedRow /\ ColumnsAlign) => C11_UnpopulatedComponentIsZero

-----------------------------------------------------------------------------
(* The generic Reader[T] (src/reader.go).  T is a struct of pointers to    *)
(* components; Read(t *T) decodes a row into *t.  Here r holds the fields  *)
(* of a Reader[T] and ret.data the value of *t after the call.             *)

\* The type T of the callers: Prefab{C *Character; A *Attributes;
\* M *Monster; N *Narrow; O *Odd}, as the component type each field of T
\* points to.
Prefab ==
    MapOf(<< [name |-> <<"C">>, type |-> Character],
             [name |-> <<"A">>, type |-> Attributes],
             [name |-> <<"M">>, type |-> Monster],
             [name |-> <<"N">>, type |-> Narrow],
             [name |-> <<"O">>, type |-> Odd] >>)

\* A pointer to a component value; the nil pointer.
Ptr(typ, value) == [nil |-> FALSE, type |-> typ, value |-> value]
NilPtr == [nil |-> TRUE, type |-> "nil", value |-> <<>>]

\* var def T
ZeroT == [c \in DOMAIN Prefab |-> NilPtr]

\* colDescriptor{kind, componentName, fieldName}; the kind of a column
\* without a field stays the zero Kind, reflect.Invalid.
colDescriptor(kind, componentName, fieldName) ==
    [kind |-> kind, componentName |-> componentName, fieldName |-> fieldName]

RECURSIVE createDescriptorsTLoop(_, _, _)
\* The loop of Reader[T].createDescriptors over the header row.
createDescriptorsTLoop(rd, row, i) ==
    IF i > Len(row) THEN [r |-> rd, err |-> NoErr]
    ELSE LET name == parseHeaderColumnName(row[i]) IN
         IF name.err # NoErr THEN [r |-> rd, err |-> name.err]
         ELSE IF name.componentName \notin DOMAIN Prefab
         THEN [r |-> rd, err |-> Err("does not have a field", name.componentName)]
         ELSE LET typ == Prefab[name.componentName]
                  subfield == FieldByName(typ, name.fieldName)
              IN IF Len(name.fieldName) > 0 /\ ~subfield.ok
                 THEN [r |-> rd, err |-> Err("does not have a field", name.fieldName)]
                 ELSE createDescriptorsTLoop(
                         [rd EXCEPT !.colDescriptors =
                             Append(@, colDescriptor(
                                 IF Len(name.fieldName) > 0 THEN subfield.kind ELSE "invalid",
                                 name.componentName, name.fieldName))],
                         row, i + 1)

createDescriptorsT(rd, row) ==
    createDescriptorsTLoop([rd EXCEPT !.colDescriptors = <<>>], row, 1)

\* strconv.Atoi: a decimal text with an optional sign, in 64 bits.
Atoi(s) ==
    IF Len(s) = 0 THEN [st |-> "syntax", n |-> 0]
    ELSE LET neg == s[1] = "-"
             body == IF s[1] \in {"+", "-"} THEN SubSeq(s, 2, Len(s)) ELSE s
             un == IF Len(body) = 0 THEN [st |-> "syntax", n |-> 0]
                   ELSE parseDigits(body, 1, 10, 0, 64)
         IN IF un.st # "ok" THEN [st |-> un.st, n |-> 0]
            ELSE [st |-> "ok", n |-> IF neg THEN -un.n ELSE un.n]

\* A value of the data map: nil, or a number or a text.
NilValue == [nil |-> TRUE, value |-> <<>>]
Value(v) == [nil |-> FALSE, value |-> v]

\* The switch on descriptor.kind in parseRow: the value, or the error.
cellValue(kind, cell) ==
    IF kind \in {"int", "int32", "int64"}
    THEN LET number == Atoi(cell) IN
         IF number.st = "syntax" THEN [err |-> Err("strconv.ErrSyntax", cell), value |-> NilValue]
         ELSE IF number.st = "range" THEN [err |-> Err("strconv.ErrRange", cell), value |-> NilValue]
         ELSE [err |-> NoErr, value |-> Value(number.n)]
    ELSE IF kind = "string" THEN [err |-> NoErr, value |-> Value(cell)]
    ELSE [err |-> NoErr, value |-> NilValue]

\* data[componentName][fieldName] = value, making the inner map at need.
putData(data, componentName, fieldName, value) ==
    IF componentName \in DOMAIN data
    THEN [data EXCEPT ![componentName] =
            [f \in DOMAIN @ \cup {fieldName} |-> IF f = fieldName THEN value ELSE @[f]]]
    ELSE [c \in DOMAIN data \cup {componentName} |->
            IF c = componentName
            THEN [f \in {fieldName} |-> value]
            ELSE data[c]]

RECURSIVE parseRowTLoop(_, _, _, _)
\* The loop of Reader[T].parseRow over the cells: the data map, or the error.
parseRowTLoop(rd, row, columnNum, data) ==
    IF columnNum > Len(row) THEN [data |-> data, err |-> NoErr, panic |-> FALSE]
    ELSE IF Len(row[columnNum]) = 0 THEN parseRowTLoop(rd, row, columnNum + 1, data)
    ELSE IF columnNum > Len(rd.colDescriptors)
    THEN [data |-> data, err |-> NoErr, panic |-> TRUE]
    ELSE LET descriptor == rd.colDescriptors[columnNum]
             cv == cellValue(descriptor.kind, row[columnNum])
         IN IF cv.err # NoErr THEN [data |-> data, err |-> cv.err, panic |-> FALSE]
            ELSE parseRowTLoop(rd, row, columnNum + 1,
                    putData(data, descriptor.componentName, descriptor.fieldName, cv.value))

\* mapstructure.Decode(data, t) into a zero *t: a field of T whose name is
\* a key of the map gets a new component, whose fields take the values of
\* the inner map that are not nil; other keys of the inner map are unused.
Decode(data) ==
    [c \in DOMAIN Prefab |->
        IF c \notin DOMAIN data THEN NilPtr
        ELSE Ptr(Prefab[c],
                 [f \in FieldNames(Prefab[c]) |->
                     IF f \in DOMAIN data[c] /\ ~data[c][f].nil
                     THEN data[c][f].value
                     ELSE ZeroOf(FieldByName(Prefab[c], f).kind)])]

\* Mutant: a component is made for every column of the row, empty or not.
parseRowT_EveryColumn(rd, pull, t) ==
    IF pull.err # NoErr THEN [t |-> t, err |-> pull.err, panic |-> FALSE]
    ELSE LET out == parseRowTLoop(rd, pull.row, 1, <<>>)
             named == {rd.colDescriptors[i].componentName : i \in DOMAIN rd.colDescriptors}
         IN IF out.panic \/ out.err # NoErr
            THEN [t |-> ZeroT, err |-> out.err, panic |-> out.panic]
            ELSE [t |-> [c \in DOMAIN Prefab |->
                            IF c \in named /\ Decode(out.data)[c].nil
                            THEN Ptr(Prefab[c], Zero(Prefab[c]))
                            ELSE Decode(out.data)[c]],
                  err |-> NoErr, panic |-> FALSE]

\* Reader[T].parseRow, given the pull and the value of *t before the call.
parseRowT(rd, pull, t) ==
    IF pull.err # NoErr THEN [t |-> t, err |-> pull.err, panic |-> FALSE]
    ELSE LET out == parseRowTLoop(rd, pull.row, 1, <<>>) IN
         IF out.panic \/ out.err # NoErr
         THEN [t |-> ZeroT, err |-> out.err, panic |-> out.panic]
         ELSE [t |-> Decode(out.data), err |-> NoErr, panic |-> FALSE]

\* Reader[T].Clear
Reader_ClearT(rd) ==
    [rd EXCEPT !.permanentErr = NoErr,
               !.hasDescriptors = FALSE,
               !.colDescriptors = <<>>]

\* r.Clear(); r.permanentErr = err
latchT(rd, err) == [Reader_ClearT(rd) EXCEPT !.permanentErr = err]

\* Reader[T].Read without descriptors, given the pull for the header row
\* and the value of *t.
readHeaderT(rd, pull, t) ==
    IF pull.err = EOF
    THEN [r |-> rd, ret |-> Return(t, HeaderEOFErr), built |-> FALSE]
    ELSE IF pull.err # NoErr
    THEN [r |-> rd, ret |-> Return(t, pull.err), built |-> FALSE]
    ELSE LET cd == createDescriptorsT(rd, pull.row) IN
         IF cd.err # NoErr
         THEN [r |-> latchT(cd.r, cd.err), ret |-> Return(t, cd.err), built |-> FALSE]
         ELSE [r |-> [cd.r EXCEPT !.hasDescriptors = TRUE],
               ret |-> Return(t, NoErr), built |-> TRUE]

\* Reader[T].Read with descriptors, given the pull for the data row.
readRowT(rd, pull, t) ==
    LET pr == parseRowT(rd, pull, t) IN
    IF pr.panic THEN [r |-> rd, ret |-> [data |-> pr.t, err |-> NoErr, panic |-> TRUE]]
    ELSE IF pr.err # NoErr
    THEN [r |-> latchT(rd, pr.err), ret |-> Return(pr.t, pr.err)]
    ELSE [r |-> rd, ret |-> Return(pr.t, NoErr)]

\* NewReader[T]
NewReaderT ==
    [permanentErr |-> NoErr, hasDescriptors |-> FALSE, colDescriptors |-> <<>>]

InitT ==
    /\ r = NewReaderT
    /\ heap = [id \in SliceIds |-> FreeSlice]
    /\ src = [eof |-> FALSE]
    /\ op = "NewReader"
    /\ ret = Return(ZeroT, NoErr)
    /\ pulled = <<>>
    /\ header = NoHeader
    /\ tables = 0
    /\ held = NoHeld

\* The end of a Read(t).
FinishT(out, s, pulls, hdr) ==
    /\ r' = out.r
    /\ src' = s
    /\ op' = "Read"
    /\ ret' = out.ret
    /\ pulled' = pulls
    /\ header' = IF out.r.hasDescriptors THEN hdr ELSE NoHeader
    /\ UNCHANGED <<heap, tables, held>>

\* Reader[T].Read(t), t being the variable the caller read into before,
\* with the rows the source may yield as header and as data.
ReadTFrom(headerRows, dataRows) ==
    IF r.permanentErr # NoErr
    THEN FinishT([r |-> r, ret |-> Return(ret.data, r.permanentErr)], src, <<>>, header)
    ELSE IF ~r.hasDescriptors
    THEN \E hp \in SourceRead(src, headerRows) :
            LET h == readHeaderT(r, hp, ret.data)
                s == AfterPull(src, hp)
            IN IF ~h.built
               THEN FinishT(h, s, <<Pulled("header", hp)>>, NoHeader)
               ELSE \E dp \in SourceRead(s, dataRows) :
                       FinishT(readRowT(h.r, dp, ret.data), AfterPull(s, dp),
                               <<Pulled("header", hp), Pulled("data", dp)>>,
                               Header(hp.row, Prefab))
    ELSE \E dp \in SourceRead(src, dataRows) :
            FinishT(readRowT(r, dp, ret.data), AfterPull(src, dp),
                    <<Pulled("data", dp)>>, header)

ReadT == ReadTFrom(HeaderRows, DataRows)

\* Reader[T].Clear()
ClearT ==
    /\ r' = Reader_ClearT(r)
    /\ op' = "Clear"
    /\ ret' = Return(ret.data, NoErr)
    /\ pulled' = <<>>
    /\ header' = NoHeader
    /\ UNCHANGED <<heap, src, tables, held>>

NextT == ReadT \/ ClearT

SpecT == InitT /\ [][NextT]_vars

\* The columns of the header in force that name a component of T, and
\* whether the last row holds a cell in one of them.
ColsOf(c) == {i \in DOMAIN header.row : HeaderCol(i).componentName = c}
HasCell(c) == \E i \in ColsOf(c) : LastPull.row[i] # <<>>

\* C12: after a successful Read(t) of the generic Reader, a component
\* pointer of *t is non-nil exactly when some column of that component,
\* with a field or without, holds a non-empty cell in the row; and in a
\* non-nil component every field whose cells are all empty is zero.
C12_PointerIffCell ==
    (op = "Read" /\ ret.err = NoErr /\ ~ret.panic) =>
        \A c \in DOMAIN Prefab :
            /\ ~ret.data[c].nil <=> HasCell(c)
            /\ ~ret.data[c].nil =>
                  /\ ret.data[c].type = Prefab[c]
                  /\ \A f \in FieldNames(Prefab[c]) :
                        (\A i \in ColsOf(c) :
                            HeaderCol(i).fieldName = f => LastPull.row[i] = <<>>)
                        => ret.data[c].value[f] = ZeroOf(FieldByName(Prefab[c], f).kind)

\* A row with a cell under a field-less column only, one with a cell under
\* an int column beside an empty column of the same component, and a
\* component of the header left nil.
C12_Witness ==
    /\ op = "Read" /\ ret.err = NoErr /\ ~ret.panic
    /\ header.row = << <<"M">>, <<"A", ".", "h">>, <<"A", ".", "d">> >>
    /\ LastPull.row = << <<"7">>, <<"7">>, <<>> >>
    /\ ~ret.data[<<"M">>].nil
    /\ ret.data[<<"A">>].value[<<"h">>] = 7
    /\ ret.data[<<"A">>].value[<<"d">>] = FALSE
    /\ ret.data[<<"C">>].nil

\* The slot indices of the Reader, and the field columns of a header row.
SlotIndices == DOMAIN r.componentTypes
FieldCols(row) == {i \in DOMAIN row : parseHeaderColumnName(row[i]).fieldName # <<>>}

\* Every column descriptor points to a slot, and to a field of its type.
DescriptorsPointToSlots ==
    \A k \in DOMAIN r.columnDescriptors :
        /\ r.columnDescriptors[k].resultIndex \in SlotIndices
        /\ r.columnDescriptors[k].fieldName
              \in FieldNames(r.componentTypes[r.columnDescriptors[k].resultIndex])

\* C13 as claimed: with descriptors, the column descriptors and the slots
\* are both non-empty, and every column descriptor's slot index is valid.
C13_DescriptorsNonEmpty ==
    r.hasDescriptors =>
        /\ Len(r.columnDescriptors) >= 1
        /\ Len(r.componentTypes) >= 1
        /\ DescriptorsPointToSlots

\* C13 as the code has it: with descriptors, the slots are non-empty (one
\* value and one result element per slot) and every column descriptor's
\* slot index is valid; there is one column descriptor per header column
\* that names a field, so there is none when the header names components
\* only.
C13_DescriptorsConsistent ==
    r.hasDescriptors =>
        /\ Len(r.componentTypes) >= 1
        /\ DOMAIN r.componentValues = SlotIndices
        /\ r.results \in SliceIds
        /\ DOMAIN heap[r.results].elems = SlotIndices
        /\ DescriptorsPointToSlots
        /\ Len(r.columnDescriptors) = Cardinality(FieldCols(header.row))

\* Descriptors of a header of field-less columns: slots, no column descriptor.
C13_Witness ==
    /\ r.hasDescriptors
    /\ FieldCols(header.row) = {}
    /\ r.columnDescriptors = <<>>
    /\ Len(r.componentTypes) >= 1

\* The cell of column i in the last row is not empty and is no text of
\* the type of the field that header cell i names.
Unparsable(i) ==
    /\ IsFieldCol(i)
    /\ LastPull.row[i] # <<>>
    /\ setFieldFromCell(ColKind(i), LastPull.row[i]).err # NoErr

\* C14: a non-empty cell that is no text of its field's type makes Read
\* return an error; no Read succeeds (leaving the field at a default) on a
\* row that holds such a cell.
C14_NoSilentDefault ==
    (DecodedRow /\ \E i \in DOMAIN header.row : Unparsable(i)) =>
        (~ret.panic /\ ret.data = 0 /\ ret.err # NoErr)

\* What remains of C14 for rows whose columns agree with the descriptors.
C14_WhereColumnsAlign ==
    (DecodedRow /\ ColumnsAlign) => C14_NoSilentDefault

-----------------------------------------------------------------------------
(* Tables of the narrow integer component read by the generic Reader:      *)
(* cells at and one beyond the maximum of its int8 field.                  *)

RECURSIVE Digits(_)
\* The decimal text of a natural number.
Digits(n) ==
    IF n < 10 THEN <<DigitChars[n + 1]>>
    ELSE Append(Digits(n \div 10), DigitChars[(n % 10) + 1])

\* The maximum of an integer kind of 8 or 16 bits.
MaxOf(kind) ==
    IF kind \in UintKinds THEN 2 ^ KindBits(kind) - 1 ELSE 2 ^ (KindBits(kind) - 1) - 1

NarrowKind == FieldByName(Narrow, <<"b">>).kind
NarrowHeaderCells == { <<"N", ".", "b">>, <<"M">> }
NarrowDataCells == { <<>>, Digits(MaxOf(NarrowKind)), Digits(MaxOf(NarrowKind) + 1) }
NarrowHeaderRows == [1..NCols -> NarrowHeaderCells]
NarrowDataRows == [1..NCols -> NarrowDataCells]

ReadNarrow == ReadTFrom(NarrowHeaderRows, NarrowDataRows)

NextNarrow == ReadNarrow \/ ClearT

SpecNarrow == InitT /\ [][NextNarrow]_vars

\* The only cell of the last row under the integer field of column i.
OnlyCellOf(i) ==
    /\ IsFieldCol(i)
    /\ ColKind(i) \in IntKinds \cup UintKinds
    /\ LastPull.row[i] # <<>>
    /\ \A j \in DOMAIN header.row : (j # i /\ HeaderCol(j) = HeaderCol(i)) => LastPull.row[j] = <<>>

\* C15: under an integer field of N bits, a cell that is the maximum of
\* the field decodes to that value, and a cell one beyond the maximum
\* makes Read fail with an error: no Read succeeds on it with a wrapped,
\* truncated or default value.
C15_MaxDecodesBeyondFails ==
    DecodedRow =>
        \A i \in DOMAIN header.row :
            OnlyCellOf(i) =>
                /\ LastPull.row[i] = Digits(MaxOf(ColKind(i))) =>
                      /\ ret.err = NoErr /\ ~ret.panic
                      /\ ret.data[HeaderCol(i).componentName].value[HeaderCol(i).fieldName]
                            = MaxOf(ColKind(i))
                /\ LastPull.row[i] = Digits(MaxOf(ColKind(i)) + 1) => ret.err # NoErr

\* C15 for setFieldFromCell of the schema Reader alone, at 8 and 16 bits.
C15_setFieldFromCell ==
    \A kind \in {"int8", "int16", "uint8", "uint16"} :
        /\ setFieldFromCell(kind, Digits(MaxOf(kind))) = [err |-> NoErr, value |-> MaxOf(kind)]
        /\ setFieldFromCell(kind, Digits(MaxOf(kind) + 1)).err.kind = "too large"

\* C16: once a header of the stream has built descriptors, a Read that
\* finds the row source exhausted returns the end-of-stream signal, also
\* the Read that follows a Clear after the last table; the error of a
\* missing header is returned only while no header has been read.
C16_EndOfStreamAfterAHeader ==
    (op = "Read" /\ tables >= 1) =>
        /\ ret.err # HeaderEOFErr
        /\ (pulled # <<>> /\ LastPull.err = EOF) => (ret.err = EOF /\ ret.data = 0)

\* C16 as the code has it: a Read that finds the row source exhausted
\* returns no data, and returns the error of a missing header exactly
\* when it pulled for a header (the Reader had no descriptors: at first
\* and after every Clear, also a Clear after the last table), however many
\* headers were read before; it returns the end-of-stream signal when it
\* pulled for a data row.
C16_MissingHeaderWhenAwaiting ==
    [][(op' = "Read" /\ pulled' # <<>> /\ pulled'[Len(pulled')].err = EOF) =>
        /\ ret'.data = 0
        /\ ret'.err = IF ~r.hasDescriptors /\ Len(pulled') = 1 THEN HeaderEOFErr ELSE EOF]_vars

\* After a table was read, a Read finds the source exhausted in place of a
\* header.
C16_Witness ==
    /\ op = "Read"
    /\ tables >= 1
    /\ PulledHeaderOnly(EOF)
    /\ ret.err = HeaderEOFErr

-----------------------------------------------------------------------------
(* A table decoded twice.  The caller decodes a table of the stream,      *)
(* calls Clear and decodes a table of the same header and rows, with the   *)
(* schema as SetSchema set it; held notes what every Read pulled and       *)
(* returned, in the first decoding (first) and in the second (again).      *)

\* The count of Reads of the first decoding stops at this many.
MaxReads == 2

\* Number of cells of every row of the stream that is decoded twice.
ReplayCols == 2

ReplayHeaderRows == [1..ReplayCols -> { <<"C", ".", "n">>, <<"A", ".", "d">>, <<"M">> }]
ReplayDataRows == [1..ReplayCols -> DataCells]

\* What a Read pulled and what it returned, the values not the slice.
Outcome(pulls, out, hp) ==
    [pulled |-> pulls, err |-> out.err, panic |-> out.panic,
     values |-> IF out.data # 0 THEN hp[out.data].elems ELSE <<>>]

RECURSIVE Flatten(_)
\* The pulls of a sequence of Reads, in order.
Flatten(log) ==
    IF log = <<>> THEN <<>> ELSE Flatten(SubSeq(log, 1, Len(log) - 1)) \o log[Len(log)].pulled

\* The rows of the first table, as the stream yields them once more.
Feed == Flatten(held.first)
Fed == Len(Flatten(held.again))

\* The i-th pull of the second decoding: the stream ends after the table.
FeedAt(i) == IF i <= Len(Feed) THEN [row |-> Feed[i].row, err |-> Feed[i].err] ELSE Fail(EOF)

InitReplay ==
    /\ r = Reader_SetSchema(NewReader(NilSchema), <<Character, Attributes, Monster>>)
    /\ heap = [id \in SliceIds |-> FreeSlice]
    /\ src = [eof |-> FALSE]
    /\ op = "SetSchema"
    /\ ret = NoReturn
    /\ pulled = <<>>
    /\ header = NoHeader
    /\ tables = 0
    /\ held = [ref |-> 0, seen |-> <<>>, phase |-> "first", first |-> <<>>, again |-> <<>>]

\* A Read of the first decoding; another table follows, so the stream
\* does not end here.
ReadFirst ==
    /\ held.phase = "first"
    /\ Len(held.first) < MaxReads
    /\ ReadFrom(ReplayHeaderRows, ReplayDataRows)
    /\ \A i \in DOMAIN pulled' : pulled'[i].err # EOF
    /\ held' = [held EXCEPT !.first = Append(@, Outcome(pulled', ret', heap'))]

\* Clear between the two decodings.
ClearBetween ==
    /\ held.phase = "first"
    /\ held.first # <<>>
    /\ r' = Reader_Clear(r)
    /\ heap' = Collect(heap, r', held)
    /\ op' = "Clear"
    /\ ret' = NoReturn
    /\ pulled' = <<>>
    /\ header' = NoHeader
    /\ held' = [held EXCEPT !.phase = "again"]
    /\ UNCHANGED <<src, tables>>

\* A Read of the second decoding: the source yields the rows of the first.
ReadAgain ==
    /\ held.phase = "again"
    /\ Len(held.again) < Len(held.first)
    /\ LET rows == {Feed[i].row : i \in DOMAIN Feed} IN ReadFrom(rows, rows)
    /\ \A i \in DOMAIN pulled' :
          [row |-> pulled'[i].row, err |-> pulled'[i].err] = FeedAt(Fed + i)
    /\ held' = [held EXCEPT !.again = Append(@, Outcome(pulled', ret', heap'))]

NextReplay == ReadFirst \/ ClearBetween \/ ReadAgain

SpecReplay == InitReplay /\ [][NextReplay]_vars

\* C17: with the schema unchanged, the Reads of a table decoded after a
\* Clear return what the Reads of an identical table (same header, same
\* rows) returned before it: the same values in the same slots and the
\* same errors, from the same rows.
C17_ReplayReproduces ==
    /\ \A k \in DOMAIN held.again : held.again[k] = held.first[k]

\* Both decodings done, with a decoded row and then an error in each.
C17_Witness ==
    /\ held.phase = "again"
    /\ Len(held.again) = 2
    /\ Len(held.first) = 2
    /\ held.again[1].values # <<>>
    /\ held.again[1].err = NoErr
    /\ held.again[2].err.kind = "strconv.ErrSyntax"

-----------------------------------------------------------------------------
(* C18: Clear is idempotent. *)

\* C18: a Clear that follows a Clear changes nothing of the Reader: not the
\* permanent error, the flag, the column descriptors, the result descriptor
\* and its slices, the schema, nor the position of the row source.
C18_ClearIsIdempotent ==
    [][(op = "Clear" /\ op' = "Clear") => (r' = r /\ heap' = heap /\ src' = src)]_vars

\* A Clear has dropped the descriptors of a table that was being read, under
\* a schema that is set; a second Clear finds the Reader as the first left it.
C18_Witness ==
    /\ op = "Clear"
    /\ tables >= 1
    /\ r.schema # NilSchema
    /\ r = Reader_Clear(r)
    /\ \A id \in SliceIds : heap[id] = FreeSlice \/ held.ref = id

-----------------------------------------------------------------------------
(* C19: a schema set from a list of components and a schema set from a     *)
(* prototype.  Two Readers are run on the same rows: r, whose schema is    *)
(* set by SetSchema, and a second one kept in "held", whose schema is set  *)
(* by SetPrototypeSchema with fields of the same names and types.          *)

ModeCols == 2

ModeHeaderRows == [1..ModeCols -> HeaderCells]
ModeDataRows == [1..ModeCols -> DataCells]

\* A list of components and the visible fields of a prototype that binds
\* the same names to the same types (in another order, and the list with
\* a repeated component).
ModePairs ==
    { [components |-> <<Character, Attributes, Monster>>,
       fields |-> << [name |-> <<"M">>, type |-> Monster],
                     [name |-> <<"A">>, type |-> Attributes],
                     [name |-> <<"C">>, type |-> Character] >>],
      [components |-> <<Attributes, Monster, Attributes>>,
       fields |-> << [name |-> <<"A">>, type |-> Attributes],
                     [name |-> <<"M">>, type |-> Monster] >>] }

\* The i-th of the rows another Read pulled.
PullAt(pulls, i) == [row |-> pulls[i].row, err |-> pulls[i].err]

\* What a Read returned and left, having pulled n rows; n is -1 when it
\* asked for a row more than it was given.
Used(out, n) == [r |-> out.r, heap |-> out.heap, ret |-> out.ret, used |-> n]

Starved(rd, hp) == [r |-> rd, heap |-> hp, ret |-> NoReturn, used |-> -1]

\* Read after readHeader returned h: Read returns, or goes on to the data
\* row.
ReadWithOn(h, pulls) ==
    IF ~h.built THEN Used(h, 1)
    ELSE IF Len(pulls) < 2 THEN Starved(h.r, h.heap)
    ELSE Used(readRow(h.r, h.heap, PullAt(pulls, 2)), 2)

\* Reader.Read of a Reader that is given the rows another Read pulled.
ReadWith(rd, hp, pulls) ==
    IF rd.permanentErr # NoErr
    THEN Used(readLatched(rd, hp), 0)
    ELSE IF Len(pulls) = 0 THEN Starved(rd, hp)
    ELSE IF ~rd.hasDescriptors
    THEN ReadWithOn(readHeader(rd, hp, PullAt(pulls, 1)), pulls)
    ELSE Used(readRow(rd, hp, PullAt(pulls, 1)), 1)

\* The second Reader, its slices, and what its last Read returned and pulled.
Second(rd, hp, rt, n) ==
    [ref |-> 0, seen |-> <<>>, r |-> rd, heap |-> hp, ret |-> rt, used |-> n]

InitModes ==
    \E pair \in ModePairs :
        /\ r = Reader_SetSchema(NewReader(NilSchema), pair.components)
        /\ heap = [id \in SliceIds |-> FreeSlice]
        /\ src = [eof |-> FALSE]
        /\ op = "SetSchema"
        /\ ret = NoReturn
        /\ pulled = <<>>
        /\ header = NoHeader
        /\ tables = 0
        /\ held = Second(Reader_SetPrototypeSchema(NewReader(NilSchema), pair.fields),
                         [id \in SliceIds |-> FreeSlice], NoReturn, 0)

\* The second Reader after a Read, with the slices it keeps alive.
SecondAfter(out) == Second(out.r, Collect(out.heap, out.r, NoHeld), out.ret, out.used)

\* Both Readers read; the second is given the rows the first pulled.
ReadBoth ==
    /\ ReadFrom(ModeHeaderRows, ModeDataRows)
    /\ held' = SecondAfter(ReadWith(held.r, held.heap, pulled'))

\* Both Readers are cleared.
ClearBoth ==
    /\ r' = Reader_Clear(r)
    /\ heap' = Collect(heap, r', NoHeld)
    /\ op' = "Clear"
    /\ ret' = NoReturn
    /\ pulled' = <<>>
    /\ header' = NoHeader
    /\ held' = Second(Reader_Clear(held.r), Collect(held.heap, Reader_Clear(held.r), NoHeld),
                      NoReturn, 0)
    /\ UNCHANGED <<src, tables>>

\* Both Readers are given a schema, each in its mode.
SetBoth ==
    \E pair \in ModePairs :
        /\ r' = Reader_SetSchema(r, pair.components)
        /\ op' = "SetSchema"
        /\ ret' = NoReturn
        /\ pulled' = <<>>
        /\ held' = Second(Reader_SetPrototypeSchema(held.r, pair.fields), held.heap, NoReturn, 0)
        /\ UNCHANGED <<heap, src, header, tables>>

NextModes == ReadBoth \/ ClearBoth \/ SetBoth

SpecModes == InitModes /\ [][NextModes]_vars

\* C19: on the same rows, the Reader whose schema was set from a list of
\* components and the Reader whose schema was set from a prototype with
\* fields of the same names and types return the same from every Read: the
\* same error or panic, or components of the same types and values in the
\* same order, having pulled the same rows.
C19_ModesAgree ==
    op = "Read" =>
        /\ held.used = Len(pulled)
        /\ Outcome(<<>>, held.ret, held.heap) = Outcome(<<>>, ret, heap)

\* Both Readers returned components, one of them filled from a cell, under
\* schemas given in the two modes.
C19_Witness ==
    /\ op = "Read"
    /\ ret.err = NoErr /\ ~ret.panic /\ ret.data # 0
    /\ held.ret.data # 0
    /\ \E i \in DOMAIN heap[ret.data].elems :
          /\ heap[ret.data].elems[i].type = Attributes
          /\ heap[ret.data].elems[i].value # Zero(Attributes)
          /\ held.heap[held.ret.data].elems[i] = heap[ret.data].elems[i]
    /\ tables >= 1

-----------------------------------------------------------------------------
(* C20: the names of a header that the schema does not know.  The header   *)
(* cells here differ from the names of the schema in case, in the          *)
(* component a field belongs to, and in having no field after the dot.     *)

NameCols == 2

NameCells ==
    { <<"C", ".", "n">>, <<"c", ".", "n">>, <<"C", ".", "N">>, <<"A", ".", "n">>,
      <<"C", ".">>, <<"M">>, <<"m">>, <<>> }

NameHeaderRows == [1..NameCols -> NameCells]
NameDataRows == [1..NameCols -> DataCells]

ReadNames == ReadFrom(NameHeaderRows, NameDataRows) /\ UNCHANGED held

NextNames == ReadNames \/ Clear \/ SetSchema \/ SetPrototypeSchema

SpecNames == Init /\ [][NextNames]_vars

\* The component of a header cell is no key of the schema.
Unregistered(cell) == parseHeaderColumnName(cell).componentName \notin DOMAIN r.schema

\* The component of a header cell is a key of the schema, the cell names a
\* field, and the component's type has no field of that very name.
NoSuchField(cell) ==
    LET name == parseHeaderColumnName(cell) IN
    /\ name.componentName \in DOMAIN r.schema
    /\ name.fieldName # <<>>
    /\ \A i \in DOMAIN Fields(r.schema[name.componentName]) :
          Fields(r.schema[name.componentName])[i].name # name.fieldName

\* The Read pulled a header row.
ReadAHeader ==
    op = "Read" /\ pulled # <<>> /\ pulled[1].as = "header" /\ pulled[1].err = NoErr

UnknownComponent(cell) ==
    Err("not defined in the schema", parseHeaderColumnName(cell).componentName)

UnknownField(cell) ==
    Err("does not have field",
        parseHeaderColumnName(cell).componentName \o <<".">>
            \o parseHeaderColumnName(cell).fieldName)

\* C20: a Read that pulls a header row fails with "component type is not
\* defined in the schema" exactly when the first cell that does not resolve
\* names a component that is no key of the schema, and with "component type
\* does not have field" exactly when that cell names a key of the schema
\* and a non-empty field its type does not have; when every cell names a
\* key of the schema and no field or a field of its type, the header
\* resolves and Read goes on to the data row.  Names are compared as they
\* are written: a name that differs in case only does not resolve.
C20_UnknownNamesReported ==
    ReadAHeader =>
        LET row == pulled[1].row
            bad == {i \in DOMAIN row : Unregistered(row[i]) \/ NoSuchField(row[i])}
        IN IF bad = {}
           THEN /\ Len(pulled) = 2
                /\ ret.err.kind \notin {"not defined in the schema", "does not have field"}
           ELSE LET k == CHOOSE i \in bad : \A j \in bad : i <= j IN
                /\ Len(pulled) = 1
                /\ ret.err = IF Unregistered(row[k])
                             THEN UnknownComponent(row[k])
                             ELSE UnknownField(row[k])
                /\ r.permanentErr = ret.err

\* Under a schema that has C, whose type has the field n, the header cell
\* C.N was refused for its field.
C20_Witness ==
    /\ ReadAHeader
    /\ pulled[1].row[1] = <<"C", ".", "N">>
    /\ <<"C">> \in DOMAIN r.schema
    /\ ret.err = Err("does not have field", <<"C", ".", "N">>)

-----------------------------------------------------------------------------
(* C21: a value written as text and read back.  A Reader is given a header *)
(* of one field column and a data row of one cell, the canonical text of   *)
(* a value of the field's type.                                            *)

RoundLen == 2

RoundChars == {"a", "7", " ", "."}

\* The fields read back: a string, an int, a bool and an int8.
RoundFields ==
    { [col |-> <<"C", ".", "n">>, type |-> Character, name |-> <<"n">>],
      [col |-> <<"A", ".", "h">>, type |-> Attributes, name |-> <<"h">>],
      [col |-> <<"A", ".", "d">>, type |-> Attributes, name |-> <<"d">>],
      [col |-> <<"N", ".", "b">>, type |-> Narrow, name |-> <<"b">>] }

\* Values of a kind: every int8, every boolean, the strings of up to
\* RoundLen characters, and for int the numbers about the 8- and 16-bit
\* limits.
ValuesOf(kind) ==
    CASE kind = "string" -> UNION {[1..n -> RoundChars] : n \in 0..RoundLen}
      [] kind = "bool" -> BOOLEAN
      [] kind = "int8" -> (-MaxOf("int8") - 1)..MaxOf("int8")
      [] kind = "int" -> {-MaxOf("int16") - 1, -MaxOf("int8") - 2, -MaxOf("int8") - 1,
                          -1, 0, 1, MaxOf("int8"), MaxOf("int8") + 1, MaxOf("int16")}

\* strconv.FormatInt(n, 10)
FormatInt(n) == IF n < 0 THEN <<"-">> \o Digits(-n) ELSE Digits(n)

\* strconv.FormatBool
FormatBool(b) == IF b THEN <<"t", "r", "u", "e">> ELSE <<"f", "a", "l", "s", "e">>

\* The canonical text of a value of a kind.
Format(kind, v) ==
    CASE kind = "string" -> v
      [] kind = "bool" -> FormatBool(v)
      [] OTHER -> FormatInt(v)

RoundKind(f) == FieldByName(f.type, f.name).kind

\* What the caller wrote: the field and the value.
Written(f, v) == [ref |-> 0, seen |-> <<>>, field |-> f, value |-> v]

InitRound ==
    \E f \in RoundFields : \E v \in ValuesOf(RoundKind(f)) :
        /\ r = Reader_SetSchema(NewReader(NilSchema), <<Character, Attributes, Narrow>>)
        /\ heap = [id \in SliceIds |-> FreeSlice]
        /\ src = [eof |-> FALSE]
        /\ op = "SetSchema"
        /\ ret = NoReturn
        /\ pulled = <<>>
        /\ header = NoHeader
        /\ tables = 0
        /\ held = Written(f, v)

\* Read, from a source that holds the header of the field and rows with
\* the text of the value.
ReadRound ==
    /\ ReadFrom({<<held.field.col>>}, {<<Format(RoundKind(held.field), held.value)>>})
    /\ UNCHANGED held

NextRound == ReadRound \/ Clear

SpecRound == InitRound /\ [][NextRound]_vars

\* The Read pulled a data row.
ReadADataRow ==
    op = "Read" /\ pulled # <<>>
        /\ pulled[Len(pulled)].as = "data" /\ pulled[Len(pulled)].err = NoErr

\* C21: a Read that pulls the row holding the canonical text of a value (the
\* decimal text of an integer of the field's range, a string as it is, true
\* or false) under the header of a field of that type returns without error
\* a component whose field equals the value.
C21_RoundTrip ==
    ReadADataRow =>
        /\ ~ret.panic
        /\ ret.err = NoErr
        /\ ret.data # 0
        /\ Len(Returned) = 1
        /\ Returned[1].type = held.field.type
        /\ Returned[1].value[held.field.name] = held.value

\* The least int8, written as -128, was read back.
C21_Witness ==
    /\ ReadADataRow
    /\ held.field.name = <<"b">>
    /\ held.value = -MaxOf("int8") - 1
    /\ pulled[Len(pulled)].row = << <<"-", "1", "2", "8">> >>
    /\ ret.err = NoErr /\ ret.data # 0
    /\ Returned[1].value[<<"b">>] = held.value

-----------------------------------------------------------------------------
(* The Reader of src/unnamed/part_001.  Its definitions carry the source's  *)
(* names with _001 appended, those of the Reader above having them.  Every *)
(* header cell must name a field, every column has a descriptor, a cell is *)
(* decoded for int and string fields only, and Read sets the permanent     *)
(* error of a header that does not build without a Clear before it.        *)

parseHeaderColumnName_001(qualName) ==
    LET i == IndexOfDot(qualName) IN
    IF i = 0
    THEN [componentName |-> <<>>, fieldName |-> <<>>,
          err |-> Err("expected qualified name", qualName)]
    ELSE [componentName |-> SubSeq(qualName, 1, i - 1),
          fieldName |-> SubSeq(qualName, i + 1, Len(qualName)),
          err |-> NoErr]

validateHeaderColumnName_001(rd, componentName, fieldName) ==
    IF componentName \notin DOMAIN rd.schema
    THEN [componentType |-> "nil", err |-> Err("not defined in the schema", componentName)]
    ELSE IF ~FieldByName(rd.schema[componentName], fieldName).ok
    THEN [componentType |-> "nil",
          err |-> Err("does not have field", componentName \o <<".">> \o fieldName)]
    ELSE [componentType |-> rd.schema[componentName], err |-> NoErr]

\* createDescriptor, given what slices.Index found (0 when absent).
createDescriptorAt_001(rd, componentType, fieldName, found) ==
    IF found = 0
    THEN [rd EXCEPT !.componentTypes = Append(@, componentType),
                    !.componentValues = Append(@, Zero(componentType)),
                    !.columnDescriptors =
                        Append(@, [resultIndex |-> Len(rd.componentTypes) + 1,
                                   fieldName |-> fieldName])]
    ELSE [rd EXCEPT !.columnDescriptors =
                        Append(@, [resultIndex |-> found, fieldName |-> fieldName])]

createDescriptor_001(rd, componentType, fieldName) ==
    createDescriptorAt_001(rd, componentType, fieldName,
                           SliceIndex(rd.componentTypes, componentType))

RECURSIVE createDescriptorsLoop_001(_, _, _)
\* The loop of createDescriptors over the header cells, from cell i on.  On
\* an error the Reader is left with the descriptors made so far.
createDescriptorsLoop_001(rd, row, i) ==
    IF i > Len(row) THEN [r |-> rd, err |-> NoErr]
    ELSE LET name == parseHeaderColumnName_001(row[i]) IN
         IF name.err # NoErr THEN [r |-> rd, err |-> name.err]
         ELSE LET v == validateHeaderColumnName_001(rd, name.componentName, name.fieldName) IN
              IF v.err # NoErr THEN [r |-> rd, err |-> v.err]
              ELSE createDescriptorsLoop_001(
                       createDescriptor_001(rd, v.componentType, name.fieldName), row, i + 1)

\* The end of createDescriptors: the slice of the results is made.
makeResults_001(out, hp) ==
    IF out.err # NoErr THEN [r |-> out.r, heap |-> hp, err |-> out.err]
    ELSE LET m == MakeSlice(hp, Len(out.r.componentTypes)) IN
         [r |-> [out.r EXCEPT !.results = m.id], heap |-> m.heap, err |-> NoErr]

createDescriptors_001(rd, hp, row) ==
    makeResults_001(
        createDescriptorsLoop_001([rd EXCEPT !.columnDescriptors = <<>>], row, 1), hp)

\* cellInt, _ := strconv.Atoi(cell): the number, or 0 for a text that is
\* none (the limit Atoi returns for a text out of range is beyond the
\* numbers of the model).
AtoiOrZero_001(number) == IF number.st = "ok" THEN number.n ELSE 0

RECURSIVE parseRowLoop_001(_, _, _)
\* The loop of parseRow over the cells of a data row, from cell columnNum on.
parseRowLoop_001(rd, row, columnNum) ==
    IF columnNum > Len(row) THEN [r |-> rd, err |-> NoErr, panic |-> FALSE]
    ELSE IF columnNum > Len(rd.columnDescriptors)
    THEN [r |-> rd, err |-> NoErr, panic |-> TRUE]
    ELSE LET columnDescriptor == rd.columnDescriptors[columnNum]
             kind == FieldByName(rd.componentTypes[columnDescriptor.resultIndex],
                                 columnDescriptor.fieldName).kind
         IN IF kind = "int"
            THEN parseRowLoop_001(
                    [rd EXCEPT !.componentValues[columnDescriptor.resultIndex]
                                                [columnDescriptor.fieldName] =
                                    AtoiOrZero_001(Atoi(row[columnNum]))],
                    row, columnNum + 1)
            ELSE IF kind = "string"
            THEN parseRowLoop_001(
                    [rd EXCEPT !.componentValues[columnDescriptor.resultIndex]
                                                [columnDescriptor.fieldName] = row[columnNum]],
                    row, columnNum + 1)
            ELSE [r |-> rd, err |-> Err("unhandled kind", <<>>), panic |-> FALSE]

parseRow_001(rd, pull) ==
    IF pull.err # NoErr THEN [r |-> rd, err |-> pull.err, panic |-> FALSE]
    ELSE parseRowLoop_001(zeroValues(rd), pull.row, 1)

\* Read after createDescriptors returned cd: the error is set as the
\* permanent error, with no Clear; or the flag is set.
afterCreateDescriptors_001(cd, hp) ==
    IF cd.err # NoErr
    THEN [r |-> [cd.r EXCEPT !.permanentErr = cd.err], heap |-> hp,
          ret |-> Return(0, cd.err), built |-> FALSE]
    ELSE [r |-> [cd.r EXCEPT !.hasDescriptors = TRUE], heap |-> cd.heap,
          ret |-> NoReturn, built |-> TRUE]

readHeader_001(rd, hp, pull) ==
    IF pull.err = EOF
    THEN [r |-> rd, heap |-> hp, ret |-> Return(0, HeaderEOFErr), built |-> FALSE]
    ELSE IF pull.err # NoErr
    THEN [r |-> rd, heap |-> hp, ret |-> Return(0, pull.err), built |-> FALSE]
    ELSE afterCreateDescriptors_001(createDescriptors_001(rd, hp, pull.row), hp)

\* After parseRow, Read does as the Reader above does.
readRow_001(rd, hp, pull) == afterParseRow(parseRow_001(rd, pull), hp)

ReadOn_001(h, hp, s) ==
    IF ~h.built
    THEN Finish(h, s, <<Pulled("header", hp)>>, NoHeader)
    ELSE \E dp \in SourceRead(s, DataRows) :
            Finish(readRow_001(h.r, h.heap, dp), AfterPull(s, dp),
                   <<Pulled("header", hp), Pulled("data", dp)>>,
                   Header(hp.row, r.schema))

\* Reader.Read
Read_001 ==
    /\ IF r.permanentErr # NoErr
       THEN Finish(readLatched(r, heap), src, <<>>, header)
       ELSE IF ~r.hasDescriptors
       THEN \E hp \in SourceRead(src, HeaderRows) :
               ReadOn_001(readHeader_001(r, heap, hp), hp, AfterPull(src, hp))
       ELSE \E dp \in SourceRead(src, DataRows) :
               Finish(readRow_001(r, heap, dp), AfterPull(src, dp),
                      <<Pulled("data", dp)>>, header)
    /\ UNCHANGED held

\* This Reader has SetSchema and Clear, and no SetPrototypeSchema.
Next_001 == Read_001 \/ Clear \/ SetSchema

Spec_001 == Init /\ [][Next_001]_vars

-----------------------------------------------------------------------------
(* C22: what a Reader with a permanent error holds. *)

\* C22: whenever a permanent error is set (an error or the end of stream is
\* latched), the flag hasDescriptors is false, and there are no column
\* descriptors, no component types, no component values and no slice of
\* results: also when the header failed at a cell after cells that resolved.
C22_LatchedHoldsNothing ==
    r.permanentErr # NoErr =>
        /\ ~r.hasDescriptors
        /\ r.columnDescriptors = <<>>
        /\ r.componentTypes = <<>>
        /\ r.componentValues = <<>>
        /\ r.results = 0

\* A header failed at its second cell or later, the cells before it having
\* resolved, and its error is the permanent error.
C22_PartWayFailure ==
    /\ op = "Read"
    /\ Len(pulled) = 1 /\ pulled[1].err = NoErr
    /\ r.permanentErr # NoErr
    /\ r.permanentErr = ret.err
    /\ parseHeaderColumnName(pulled[1].row[1]).componentName \in DOMAIN r.schema
    /\ parseHeaderColumnName(pulled[1].row[1]).fieldName # <<>>
    /\ ret.err.arg # pulled[1].row[1]

-----------------------------------------------------------------------------
(* C23: a cell under a field of a kind that is not decoded.  Odd has the   *)
(* field z of kind complex128.                                             *)

OddHeaderCells == { <<"O", ".", "z">>, <<"C", ".", "n">> }
OddHeaderRows == [1..NCols -> OddHeaderCells]

ReadOdd == ReadTFrom(OddHeaderRows, DataRows)

NextOdd == ReadOdd \/ ClearT

SpecOdd == InitT /\ [][NextOdd]_vars

SupportedKinds == IntKinds \cup UintKinds \cup FloatKinds \cup {"string", "bool"}

\* C23: a Read that pulls a data row with a non-empty cell under a field
\* whose kind is none of the integers, floats, string and bool fails with
\* the error of an unhandled kind: it never returns having dropped the cell.
C23_UnsupportedKindFails ==
    (op = "Read" /\ pulled # <<>> /\ LastPull.as = "data" /\ LastPull.err = NoErr) =>
        \A i \in DOMAIN LastPull.row :
            (/\ header.row # <<>>
             /\ IsFieldCol(i)
             /\ ColKind(i) \notin SupportedKinds
             /\ LastPull.row[i] # <<>>)
            => ret.err.kind = "unhandled kind"

\* C23 for setFieldFromCell of the schema Reader alone.
C23_setFieldFromCell ==
    \A cell \in DataCells \ {<<>>} :
        setFieldFromCell(FieldByName(Odd, <<"z">>).kind, cell).err.kind = "unhandled kind"

-----------------------------------------------------------------------------
(* C24: decimal literals.  A Reader is given a header of one integer field *)
(* and a data row of one cell: a sign or none, zeros or none, and the      *)
(* decimal digits of a number of the field's range.                        *)

MaxZeros == 1

\* The integer fields read: an int and an int8.
LiteralFields == {f \in RoundFields : RoundKind(f) \in IntKinds}

\* The signs a decimal literal of n may carry.
SignsOf(n) ==
    IF n < 0 THEN { <<"-">> } ELSE IF n = 0 THEN { <<>>, <<"+">>, <<"-">> } ELSE { <<>>, <<"+">> }

Zeros(k) == [i \in 1..k |-> "0"]

Magnitude(n) == IF n < 0 THEN -n ELSE n

\* The decimal literal of n with a sign and k leading zeros.
Literal(n, sign, k) == sign \o Zeros(k) \o Digits(Magnitude(n))

\* What the caller wrote: the field, the number and its literal.
WrittenAs(f, n, sign, k) ==
    [ref |-> 0, seen |-> <<>>, field |-> f, value |-> n, zeros |-> k, cell |-> Literal(n, sign, k)]

InitLiteral ==
    \E f \in LiteralFields : \E n \in ValuesOf(RoundKind(f)) :
    \E sign \in SignsOf(n) : \E k \in 0..MaxZeros :
        /\ r = Reader_SetSchema(NewReader(NilSchema), <<Character, Attributes, Narrow>>)
        /\ heap = [id \in SliceIds |-> FreeSlice]
        /\ src = [eof |-> FALSE]
        /\ op = "SetSchema"
        /\ ret = NoReturn
        /\ pulled = <<>>
        /\ header = NoHeader
        /\ tables = 0
        /\ held = WrittenAs(f, n, sign, k)

\* Read, from a source that holds the header of the field and rows with
\* the literal.
ReadLiteral == ReadFrom({<<held.field.col>>}, {<<held.cell>>}) /\ UNCHANGED held

NextLiteral == ReadLiteral \/ Clear

SpecLiteral == InitLiteral /\ [][NextLiteral]_vars

\* The Read returned the number that was written.
ReadBack ==
    /\ ~ret.panic
    /\ ret.err = NoErr
    /\ ret.data # 0
    /\ Returned[1].value[held.field.name] = held.value

-----------------------------------------------------------------------------
(* C25: SetSchema with two components of one name.  The callers give lists *)
(* that hold Character and the Character of another package, and read      *)
(* tables whose headers name C.                                            *)

DupCols == 2

\* SetSchema arguments that hold two types named C, in both orders.
DupLists ==
    { <<Character, Rival>>, <<Rival, Character>>,
      <<Rival, Attributes, Character, Rival>>, <<Character, Attributes>> }

\* Header cells: C.n (both types have it), C.k (Rival only) and A.h.
DupHeaderCells == { <<"C", ".", "n">>, <<"C", ".", "k">>, <<"A", ".", "h">> }

DupHeaderRows == [1..DupCols -> DupHeaderCells]
DupDataRows == [1..DupCols -> DataCells]

\* SetSchema; the caller remembers the list it gave.
SetDup ==
    \E components \in DupLists :
        /\ r' = Reader_SetSchema(r, components)
        /\ heap' = Collect(heap, r', held)
        /\ op' = "SetSchema"
        /\ ret' = NoReturn
        /\ pulled' = <<>>
        /\ header' = IF r.hasDescriptors THEN header ELSE NoHeader
        /\ held' = [ref |-> 0, seen |-> components]
        /\ UNCHANGED <<src, tables>>

ReadDup == ReadFrom(DupHeaderRows, DupDataRows) /\ UNCHANGED held

NextDup == ReadDup \/ Clear \/ SetDup

SpecDup == Init /\ [][NextDup]_vars

\* The last component of the list that has the name.
LastNamed(components, name) ==
    components[CHOOSE i \in DOMAIN components :
                   /\ TypeName(components[i]) = name
                   /\ \A j \in DOMAIN components :
                          TypeName(components[j]) = name => j <= i]

\* The Read pulled a header and a data row and returned components.
ReadATable ==
    /\ op = "Read" /\ Len(pulled) = 2
    /\ ~ret.panic /\ ret.err = NoErr /\ ret.data # 0

\* C25: SetSchema with a list that holds components of one name returns
\* without error and leaves each name of the list registered to the last
\* component of the list that has it; a header read under that schema builds
\* components of the last type, and a header whose first column names a
\* field that only the earlier type has is refused.
C25_LastDuplicateKept ==
    /\ op = "SetSchema" =>
          /\ ~ret.panic /\ ret.err = NoErr
          /\ DOMAIN r.schema = {TypeName(held.seen[i]) : i \in DOMAIN held.seen}
          /\ \A n \in DOMAIN r.schema : r.schema[n] = LastNamed(held.seen, n)
    /\ ReadATable =>
          \A k \in DOMAIN Returned :
              Returned[k].type = LastNamed(held.seen, TypeName(Returned[k].type))
    /\ (op = "Read" /\ Len(pulled) = 1 /\ pulled[1].err = NoErr
            /\ held.seen # <<>> /\ LastNamed(held.seen, <<"C">>) = Character
            /\ pulled[1].row[1] = <<"C", ".", "k">>) =>
          ret.err.kind = "does not have field"

\* After SetSchema of Character and then Rival, the table C.n,C.k with the
\* row 7, was read into a Rival whose n is the number 7.
C25_Witness ==
    /\ ReadATable
    /\ held.seen = <<Character, Rival>>
    /\ pulled[1].row = << <<"C", ".", "n">>, <<"C", ".", "k">> >>
    /\ pulled[2].row = << <<"7">>, <<>> >>
    /\ Returned[1] = Iface(Rival, [n |-> 7, k |-> FALSE])

-----------------------------------------------------------------------------
(* C26: the rows of a stream, Read by Read.  The stream is a header row    *)
(* and data rows that differ from one another; the caller counts the rows  *)
(* pulled and the Reads that returned data since the header.               *)

StreamCols == 2
StreamData == 3

StreamHeaderRows == [1..StreamCols -> { <<"C", ".", "n">>, <<"A", ".", "h">>, <<"M">> }]
StreamDataRows == [1..StreamCols -> { <<>>, <<"7">>, <<"8">> }]

\* The streams: a header row, then data rows.
Streams ==
    { <<hr>> \o rows : hr \in StreamHeaderRows, rows \in [1..StreamData -> StreamDataRows] }

\* The i-th pull from the stream; it ends after its last row.
StreamAt(stream, i) == IF i <= Len(stream) THEN Row(stream[i]) ELSE Fail(EOF)

InitStream ==
    \E stream \in Streams :
        /\ r = Reader_SetSchema(NewReader(NilSchema), <<Character, Attributes, Monster>>)
        /\ heap = [id \in SliceIds |-> FreeSlice]
        /\ src = [eof |-> FALSE]
        /\ op = "SetSchema"
        /\ ret = NoReturn
        /\ pulled = <<>>
        /\ header = NoHeader
        /\ tables = 0
        /\ held = [ref |-> 0, seen |-> <<>>, stream |-> stream, pos |-> 0, hdr |-> 0, k |-> 0,
                   broken |-> FALSE]

\* Read from the stream: the rows pulled are its next rows. The caller
\* notes where the header stood, how many Reads returned data since, and
\* whether a Read of the session ended in a panic that it recovered from.
ReadStream ==
    /\ ReadFrom({held.stream[i] : i \in DOMAIN held.stream},
                {held.stream[i] : i \in DOMAIN held.stream})
    /\ \A i \in DOMAIN pulled' : PullAt(pulled', i) = StreamAt(held.stream, held.pos + i)
    /\ held' = [held EXCEPT
                   !.pos = @ + Cardinality({i \in DOMAIN pulled' : pulled'[i].err = NoErr}),
                   !.hdr = IF Len(pulled') > 0 /\ pulled'[1].as = "header"
                           THEN held.pos + 1 ELSE @,
                   !.k = IF ret'.data = 0 THEN @
                         ELSE IF pulled'[1].as = "header" THEN 1 ELSE @ + 1,
                   !.broken = IF Len(pulled') > 0 /\ pulled'[1].as = "header"
                              THEN ret'.panic ELSE @ \/ ret'.panic]

NextStream == ReadStream \/ Clear

SpecStream == InitStream /\ [][NextStream]_vars

\* A Read returned data, in a session none of whose Reads failed.
Succeeded == op = "Read" /\ ~ret.panic /\ ret.err = NoErr /\ ret.data # 0 /\ ~held.broken

\* The columns that name the field of column i and hold a cell in the row.
FilledFor(i, row) ==
    {j \in DOMAIN header.row :
        /\ IsFieldCol(j)
        /\ ColType(j) = ColType(i)
        /\ HeaderCol(j).fieldName = HeaderCol(i).fieldName
        /\ row[j] # <<>>}

\* The decoding of a row under the header in force: each field holds the
\* value of the last cell of the row that stands under it, or zero.
DecodingOf(i, row) ==
    IF FilledFor(i, row) = {} THEN ZeroOf(ColKind(i))
    ELSE setFieldFromCell(ColKind(i),
             row[CHOOSE j \in FilledFor(i, row) : \A l \in FilledFor(i, row) : l <= j]).value

\* The k-th data row after the header of the session.
KthRow == held.stream[held.hdr + held.k]

\* The k-th Read that returned data pulled the k-th data row after the
\* header, as its only row or right after the header.
RowsInOrder ==
    Succeeded =>
        /\ Len(pulled) = (IF held.k = 1 THEN 2 ELSE 1)
        /\ held.hdr + held.k = held.pos
        /\ LastPull.row = KthRow
        /\ held.k = 1 => pulled[1].row = held.stream[held.hdr]

\* C26: in a session whose header built, the k-th Read that returns data
\* has pulled the k-th data row after the header (two rows on the first
\* Read, one on each later Read) and returns the decoding of that row.
C26_KthReadKthRow ==
    /\ RowsInOrder
    /\ Succeeded =>
          \A i \in DOMAIN header.row :
              IsFieldCol(i) =>
                  ReturnedOf(ColType(i))[HeaderCol(i).fieldName] = DecodingOf(i, KthRow)

-----------------------------------------------------------------------------
(* C27: no index out of range.  Under Spec every data row is as wide as    *)
(* the header.                                                             *)

\* The header in force has a column that names no field.
HasMarkerColumn == \E i \in DOMAIN header.row : ~IsFieldCol(i)

\* C27: the decoding of a data row that has as many cells as the header
\* that built never indexes the column descriptors or the component values
\* out of range: the Read does not panic, whatever field-less columns the
\* header has and whatever cells stand in them.
C27_NoIndexOutOfRange ==
    (DecodedRow /\ Len(LastPull.row) = Len(header.row)) => ~ret.panic

\* The same, for headers whose columns all name a field.
C27_WithoutMarkerColumns ==
    (DecodedRow /\ Len(LastPull.row) = Len(header.row) /\ ~HasMarkerColumn) => ~ret.panic

-----------------------------------------------------------------------------
(* C28: what SetSchema and SetPrototypeSchema leave alone. *)

SchemaCalls == {"SetSchema", "SetPrototypeSchema"}

\* The Reader but for its schema.
BesidesSchema(rd) == [rd EXCEPT !.schema = NilSchema]

\* A step of SetSchema or SetPrototypeSchema changes the schema only.
SchemaOnly ==
    op' \in SchemaCalls =>
        /\ BesidesSchema(r') = BesidesSchema(r)
        /\ src' = src
        /\ ret' = NoReturn

\* What the Read of the data row dp leaves and returns, by readRow on rd.
RowOutcome(out) ==
    [r |-> BesidesSchema(out.r), ret |-> out.ret,
     values |-> IF out.ret.data # 0 THEN out.heap[out.ret.data].elems ELSE <<>>]

\* A Read in the Ready state decodes its row as the Reader would have with
\* the schema under which the header was built.
DecodesAsBuilt ==
    (op' = "Read" /\ r.hasDescriptors /\ r.permanentErr = NoErr) =>
        /\ Len(pulled') = 1
        /\ RowOutcome([r |-> r', heap |-> heap', ret |-> ret'])
             = RowOutcome(readRow([r EXCEPT !.schema = header.schema], heap,
                                  PullAt(pulled', 1)))

\* A Read that builds a header resolves its columns in the schema set last.
BuildsFromSchemaSetLast ==
    (op' = "Read" /\ Len(pulled') = 2 /\ ret'.data # 0) =>
        /\ ~r.hasDescriptors
        /\ {heap'[ret'.data].elems[k].type : k \in DOMAIN heap'[ret'.data].elems}
             = {r.schema[parseHeaderColumnName(pulled'[1].row[i]).componentName] :
                    i \in DOMAIN pulled'[1].row}

\* C28: SetSchema and SetPrototypeSchema change the schema and nothing else
\* of the Reader (error latch, has-descriptors flag, descriptors and slots);
\* called in the Ready state they leave the rows of the current table to
\* decode as under the schema the header was built with, and the new schema
\* is used by the next header that is built, which takes a Clear.
C28_SchemaCallsChangeOnlyTheSchema ==
    [][SchemaOnly /\ DecodesAsBuilt /\ BuildsFromSchemaSetLast]_vars

\* A row of a table of Character was decoded after the schema was replaced
\* by one that has no Character.
C28_Witness ==
    /\ op = "Read"
    /\ Len(pulled) = 1
    /\ ret.data # 0
    /\ r.schema # header.schema
    /\ <<"C">> \notin DOMAIN r.schema
    /\ Returned[1].type = Character
    /\ Returned[1].value[<<"n">>] = <<"7">>

====
